---- MODULE Spec2Model ----
(***************************************************************************)
(* A model of the pycryptobot trading control loop.                        *)
(*                                                                         *)
(* Two parts of the repository are modelled.                               *)
(*                                                                         *)
(*   Spec          the scheduler-driven tick executeJob of                 *)
(*                 src/pycryptobot.py, with its inline buy/sell criteria,  *)
(*                 exit triggers, order dispatch, ledger counters and the  *)
(*                 sched queue, against an exchange that may accept,       *)
(*                 reject or fail an order.                                *)
(*                                                                         *)
(*   SpecStrategy  the strategy engine of src/models/Strategy.py           *)
(*                 (get_action, is_sell_trigger, is_wait_trigger), driven  *)
(*                 by a tick that composes them in the order the           *)
(*                 specification gives.                                    *)
(*                                                                         *)
(* Units.  Percentages (margin, triggers, stops) are integers counting     *)
(* hundredths of a percent.  Prices are whole quote units, sizes and fees  *)
(* are cents.  A base quantity is the exact fraction n / d of hundredths of *)
(* a base unit, kept as the record [n, d].  The multipliers of the dynamic *)
(* trailing stop are in tenths (15 is 1.5).                                *)
(***************************************************************************)
EXTENDS Integers, Sequences, FiniteSets, TLC

\* ------------------------------------------------------------------ bounds

\* largest value of buy_count and of sell_count the model explores
MaxTrades == 2

\* largest value of state.iterations the model explores
MaxIter == 3

\* number of candles the exchange can produce during a run
MaxCandles == 2

\* ------------------------------------------------------- program constants

\* python None for an optional number
None == 999999

\* one percent, in hundredths of a percent
PCT == 100

\* size of a simulated (non-live) buy: 1000 quote units, in cents
DummyBuySize == 100000

\* the taker fee 0.005 of the account, as the divisor 1 / 0.005
TakerFee == 200

\* the fee rate 0.005 assumed when last_buy_filled is reconstructed, as the
\* divisor 1 / 0.005
DefaultFee == 200

\* delays handed to s.enter, seconds
RetryDelay == 300
PollDelay == 120
SlowSimDelay == 1

\* iteration count at which a simulation stops re-entering the tick
SimStop == 300

\* delay of the tick that follows a smart switch, seconds
SwitchDelay == 5

\* iterations during which a simulation takes goldencross to be true
RampUp == 200

\* ------------------------------------------------------------ arithmetic

Max(a, b) == IF a >= b THEN a ELSE b

Min(a, b) == IF a <= b THEN a ELSE b

\* python round(): nearest integer to a / b (b > 0), ties to the even one
RoundDiv(a, b) ==
    LET q == a \div b
        r == a % b
    IN  IF 2 * r < b THEN q
        ELSE IF 2 * r > b THEN q + 1
        ELSE IF q % 2 = 0 THEN q ELSE q + 1

\* ------------------------------------------------------------ configuration

\* The frozen configuration `app`.  Optional numbers are None when unset.
DefaultApp ==
    [ is_live |-> 0, is_sim |-> 0, sim_speed |-> "fast", is_verbose |-> 0,
      autorestart |-> FALSE,
      sell_at_loss |-> 1,
      sell_upper_pcnt |-> None, sell_lower_pcnt |-> None,
      trailing_stop_loss |-> None, trailing_stop_loss_trigger |-> 0,
      sellatresistance |-> FALSE,
      disablebullonly |-> FALSE, disablebuynearhigh |-> FALSE,
      disablebuyema |-> FALSE, nobuynearhighpcnt |-> 3,
      disablebuymacd |-> FALSE, disablebuyobv |-> FALSE,
      disablebuyelderray |-> FALSE,
      disablefailsafefibonaccilow |-> FALSE,
      disablefailsafelowerpcnt |-> FALSE,
      disableprofitbankupperpcnt |-> FALSE,
      disableprofitbankreversal |-> FALSE,
      buypercent |-> 100, sellpercent |-> 100, buymaxsize |-> None,
      preventloss |-> FALSE, preventlosstrigger |-> 1 * PCT,
      preventlossmargin |-> 1 * PCT,
      nosellminpcnt |-> None, nosellmaxpcnt |-> None,
      dynamic_tsl |-> FALSE, tsl_multiplier |-> 15,
      tsl_trigger_multiplier |-> 15, tsl_max_pcnt |-> -5 * PCT,
      enable_custom_strategy |-> FALSE, strategy_myCS |-> FALSE,
      selltriggeroverride |-> FALSE,
      trailingbuypcnt |-> 0, trailingbuyimmediatepcnt |-> None,
      trailingimmediatebuy |-> FALSE,
      trailingsellpcnt |-> 0, trailingsellimmediatepcnt |-> None,
      trailingimmediatesell |-> FALSE, trailingsellbailoutpcnt |-> None,
      exchange |-> "coinbasepro", smart_switch |-> 0,
      telegram |-> FALSE ]

isLive(a) == a.is_live = 1

\* not app.disableTelegram() and app.isTelegramEnabled()
isTelegramEnabled(a) == a.telegram

isSimulation(a) == a.is_sim = 1

allowSellAtLoss(a) == a.sell_at_loss = 1

\* float(self.buymaxsize) or None
getBuyMaxSize(a) == a.buymaxsize

\* -------------------------------------------------------------- candle rows

\* The indicator columns of the row df_last that a tick reads.  ema and macd
\* say how EMA12 stands to EMA26 and MACD to its signal on the row:
\*   "gtco" above, crossed on this row    "gt" above
\*   "ltco" below, crossed on this row    "lt" below      "eq" equal
Cross == {"gtco", "gt", "ltco", "lt", "eq"}

Row(e, m, g, o, b) ==
    [ ema |-> e, macd |-> m, goldencross |-> g, obv_pc |-> o, eri_buy |-> b ]

Rows ==
    { Row("gtco", "gt", TRUE, 0, TRUE),
      Row("gt", "gtco", TRUE, 0, TRUE),
      Row("ltco", "lt", TRUE, 0, TRUE),
      Row("gt", "gt", TRUE, 0, TRUE),
      Row("lt", "lt", TRUE, -1 * PCT, TRUE),
      Row("ltco", "gt", TRUE, 0, TRUE),
      Row("gtco", "gt", FALSE, 0, TRUE),
      Row("gtco", "gt", TRUE, -6 * PCT, TRUE),
      Row("gtco", "gt", TRUE, 0, FALSE) }

ema12gtema26(r) == r.ema \in {"gtco", "gt"}
ema12gtema26co(r) == r.ema = "gtco"
ema12ltema26(r) == r.ema \in {"ltco", "lt"}
ema12ltema26co(r) == r.ema = "ltco"
macdgtsignal(r) == r.macd \in {"gtco", "gt"}
macdgtsignalco(r) == r.macd = "gtco"
macdltsignal(r) == r.macd \in {"ltco", "lt"}
macdltsignalco(r) == r.macd = "ltco"

\* prices a ticker or a candle close can show, in quote units
Prices == {96, 106}

\* the lowest and the highest close of the frame df
CloseMin == CHOOSE p \in Prices : \A q \in Prices : p <= q
CloseMax == CHOOSE p \in Prices : \A q \in Prices : p >= q

\* quote balances the exchange account can report, in cents
QuoteBalances == {40000, 100000}

\* ------------------------------------------------------------------- state

VARIABLES
    app,              \* the configuration, frozen after start-up
    last_action,      \* state.last_action: "", "BUY" or "SELL"
    action,           \* state.action: the decision of the tick in progress
    last_buy_price,   \* quote units, 0 when flat
    last_buy_size,    \* cents
    last_buy_filled,  \* base quantity [n, d]; n = 0 when unset
    last_buy_fee,     \* cents
    last_buy_high,    \* quote units
    fib_low,          \* cents
    buy_count,
    sell_count,
    iterations,
    last_df_index,    \* index of the last candle processed, 0 for ''
    prevent_loss,     \* state.prevent_loss
    tsl_triggered,    \* state.tsl_triggered: "False", "True" or "1"
    tsl_trigger,      \* state.tsl_trigger
    tsl_pcnt,         \* state.tsl_pcnt
    tsl_max,          \* state.tsl_max
    candle,           \* index of the exchange's latest candle
    orders,           \* market orders received by the exchange adapter
    queue,            \* the sched queue: delays of the pending events
    pc,               \* where the main program stands
    restarted,        \* main is inside its auto-restart handler
    fib_high,         \* cents
    granularity,      \* "15m", "1h" or "1d"
    trading_data,     \* rows of the pre-loaded simulation window
    tick,             \* what the last tick read and did
    trailing_buy,     \* state.trailing_buy: a BUY is waiting for its price
    trailing_buy_immediate,  \* state.trailing_buy_immediate
    waiting_buy_price,       \* quote units, 0 when unset
    trailing_sell,           \* state.trailing_sell: trailing sell is on
    trailing_sell_immediate, \* state.trailing_sell_immediate
    waiting_sell_price,      \* quote units, None when unset
    df,                      \* the candle frame with its signal columns
    loop,             \* the retry loop of the Telegram process that is running
    try_cnt,          \* its try_cnt
    write_ok,         \* its write_ok
    retries,          \* attempts it has made after the first one
    waits,            \* sleep(1) calls it has made
    data_json,        \* keys of telegram_data/data.json
    helper_data,      \* keys of helper.data
    file,             \* telegram_data/<market>.json: its form and content
    bot_helper,       \* TelegramBotHelper of the trading bot: pc, op, data
    tg_helper,        \* the helper of the Telegram process: pc, op, data
    manual_pending,   \* a manual sell was requested and not yet returned
    ws_candle,        \* websocket.candles_1h: the latest candle [high, close, low]
    ws_thread,        \* the WebSocket thread: where on_message stands, its msg
    ws_view,          \* the candle the last tick read, and when it read it
    trend,            \* the last calls of is1hEMA1226Bull and is6hEMA1226Bull
    windows           \* two simulations side by side: their windows and actions

position == << last_action, last_buy_price, last_buy_size, last_buy_high,
               buy_count, sell_count >>

latches == << prevent_loss, tsl_triggered, tsl_trigger, tsl_pcnt, tsl_max >>

trailing == << trailing_buy, trailing_buy_immediate, waiting_buy_price,
               trailing_sell, trailing_sell_immediate, waiting_sell_price >>

\* the retry loops around the control files
retrying == << loop, try_cnt, write_ok, retries, waits, data_json,
               helper_data >>

\* the control files of telegram_data and the processes that use them
control == << retrying, file, bot_helper, tg_helper, manual_pending >>

\* the WebSocket client and its reader
websocket == << ws_candle, ws_thread, ws_view >>

vars == << app, last_action, action, last_buy_price, last_buy_size,
           last_buy_filled, last_buy_fee, last_buy_high, fib_low, buy_count,
           sell_count, iterations, last_df_index, prevent_loss, tsl_triggered,
           tsl_trigger, tsl_pcnt, tsl_max, candle, orders, queue, pc,
           restarted, fib_high, granularity, trading_data, tick,
           trailing_buy, trailing_buy_immediate, waiting_buy_price,
           trailing_sell, trailing_sell_immediate, waiting_sell_price,
           df, control, websocket, trend, windows >>

\* the record of a tick that has not happened
NoTick ==
    [ outcome |-> "none", action |-> "", margin |-> None, resp |-> "none",
      trigger |-> "none", immediate |-> FALSE, chg |-> None,
      waited |-> FALSE, override |-> FALSE, short |-> FALSE,
      price |-> 0, intent |-> "", trailed |-> FALSE, notify |-> "none" ]

\* ------------------------------------------- executeJob: decision of a tick

\* the buy and sell criteria on the row df_last; gc is goldencross as the
\* tick sees it, la is state.last_action
Criteria(a, r, gc, la) ==
    LET qualifiers ==
            /\ (gc \/ a.disablebullonly)
            /\ (r.obv_pc > -5 * PCT \/ a.disablebuyobv)
            /\ (r.eri_buy \/ a.disablebuyelderray)
    IN  IF /\ ema12gtema26co(r)
           /\ (macdgtsignal(r) \/ a.disablebuymacd)
           /\ qualifiers
           /\ la # "BUY"
        THEN "BUY"
        ELSE IF /\ ema12gtema26(r)
                /\ macdgtsignalco(r)
                /\ qualifiers
                /\ la # "BUY"
        THEN "BUY"
        ELSE IF /\ ema12ltema26co(r)
                /\ (macdltsignal(r) \/ a.disablebuymacd)
                /\ la \notin {"", "SELL"}
        THEN "SELL"
        ELSE "WAIT"

\* do not buy within 3% of the highest close of the frame
BuyNearHigh(a, act, price) ==
    IF act = "BUY" /\ a.disablebuynearhigh /\ price * 100 > CloseMax * 97
    THEN "WAIT" ELSE act

\* ((price / last_buy_high) - 1) * 100, in hundredths of a percent
ChangePcntHigh(price, high) ==
    IF high > 1 THEN (price * 10000) \div high - 10000 ELSE 0

\* the margin of selling the open position at `price`
Margin(a, price, size, filled, fee) ==
    LET sell_size   == (a.sellpercent * price * filled.n) \div (100 * filled.d)
        sell_fee    == RoundDiv(sell_size, TakerFee)
        sell_filled == sell_size - sell_fee
        buy_value   == size - fee
        profit      == sell_filled - buy_value
    IN  (profit * 10000) \div size

\* The exit triggers of a long position, in the order the tick applies them.
\* act is the decision so far, high the updated last_buy_high.
ExitTriggers(a, r, price, price_exit, act, margin, chg, fib) ==
    LET fibhit == /\ ~a.disablefailsafefibonaccilow
                  /\ allowSellAtLoss(a)
                  /\ a.sell_lower_pcnt = None
                  /\ fib > 0
                  /\ fib >= price * 100
        tsl    == /\ allowSellAtLoss(a)
                  /\ a.trailing_stop_loss # None
                  /\ chg < a.trailing_stop_loss
        lower  == /\ ~tsl
                  /\ ~a.disablefailsafelowerpcnt
                  /\ allowSellAtLoss(a)
                  /\ a.sell_lower_pcnt # None
                  /\ margin < a.sell_lower_pcnt
        upper  == /\ ~a.disableprofitbankupperpcnt
                  /\ a.sell_upper_pcnt # None
                  /\ margin > a.sell_upper_pcnt
        rev    == /\ ~a.disableprofitbankreversal
                  /\ margin > 3 * PCT
                  /\ r.obv_pc < 0
                  /\ macdltsignal(r)
        fired  == fibhit \/ tsl \/ lower \/ upper \/ rev
        act1   == IF fired THEN "SELL" ELSE act
        veto   == act1 = "SELL" /\ ~allowSellAtLoss(a) /\ margin <= 0
        act2   == IF veto THEN "WAIT" ELSE act1
        imm2   == fired /\ ~veto
        resist == /\ a.sellatresistance
                  /\ margin > 1 * PCT
                  /\ price > 0
                  /\ price # price_exit
    IN  [ action    |-> IF resist THEN "SELL" ELSE act2,
          immediate |-> resist \/ imm2,
          trigger   |-> IF resist THEN "resistance"
                        ELSE IF veto THEN "veto"
                        ELSE IF rev THEN "reversal"
                        ELSE IF upper THEN "upper"
                        ELSE IF lower THEN "lower"
                        ELSE IF tsl THEN "tsl"
                        ELSE IF fibhit THEN "fib"
                        ELSE "none" ]

\* ------------------------------------------------- Fibonacci retracement

\* getFibonacciRetracementLevels(price) for price # 0: the dict it returns,
\* as the sequence of its (key, value) pairs in insertion order; values in
\* cents (truncated to 2 decimals)
FibBands(price) ==
    LET d     == CloseMax - CloseMin
        P     == price * 1000
        at(k) == CloseMax * 1000 - k * d
        ab(k) == CloseMax * 1000 + k * d
        lv(k) == at(k) \div 10
        up(k) == ab(k) \div 10
    IN  IF price <= CloseMin THEN << <<"ratio1", CloseMin * 100>> >>
        ELSE IF P <= at(768)
        THEN << <<"ratio1", CloseMin * 100>>, <<"ratio0_768", lv(768)>> >>
        ELSE IF P <= at(618)
        THEN << <<"ratio0_768", lv(768)>>, <<"ratio0_618", lv(618)>> >>
        ELSE IF P <= at(500)
        THEN << <<"ratio0_618", lv(618)>>, <<"ratio0_5", lv(500)>> >>
        ELSE IF P <= at(382)
        THEN << <<"ratio0_5", lv(500)>>, <<"ratio0_382", lv(382)>> >>
        ELSE IF P <= at(286)
        THEN << <<"ratio0_382", lv(382)>>, <<"ratio0_286", lv(286)>> >>
        ELSE IF price < CloseMax
        THEN << <<"ratio0_286", lv(286)>>, <<"ratio0", CloseMax * 100>> >>
        ELSE IF price = CloseMax
        THEN << <<"ratio0_286", lv(286)>>, <<"ratio0", CloseMax * 100>>,
                <<"ratio1_272", up(272)>> >>
        ELSE IF P < ab(272)
        THEN << <<"ratio0", CloseMax * 100>>, <<"ratio1_272", up(272)>> >>
        ELSE IF P < ab(414)
        THEN << <<"ratio1_272", CloseMax * 100>>, <<"ratio1_414", up(414)>> >>
        ELSE IF P < ab(618)
        THEN << <<"ratio1_618", up(618)>> >>
        ELSE << >>

\* state.fib_low and state.fib_high after the bands have been read
FibUpdate(bands, low, high) ==
    IF Len(bands) = 1
    THEN IF bands[1][1] = "ratio1_618"
         THEN [ low |-> bands[1][2], high |-> bands[1][2] * 2 ]
         ELSE [ low |-> bands[1][2],
                high |-> IF bands[1][1] = "ratio1" THEN bands[1][2] ELSE high ]
    ELSE IF Len(bands) = 2
    THEN [ low |-> bands[1][2], high |-> bands[2][2] ]
    ELSE [ low |-> low, high |-> high ]

\* ------------------------------------------------------- exchange adapter

\* rows a live frame must have
MinRows(a, g) == IF a.exchange = "binance" /\ g = "1d" THEN 250 ELSE 300

\* app.marketBuy: the orders it hands to the exchange API
marketBuy(a, quote_currency, buy_percent) ==
    IF a.is_live = 1
    THEN LET q == IF buy_percent > 0 /\ buy_percent < 100
                  THEN (buy_percent * quote_currency) \div 100
                  ELSE quote_currency
         IN  { [ side |-> "BUY", qty |-> q ] }
    ELSE {}

\* app.marketSell: the orders it hands to the exchange API
marketSell(a, base_currency, sell_percent) ==
    IF a.is_live = 1
    THEN LET q == IF sell_percent > 0 /\ sell_percent < 100
                  THEN (sell_percent * base_currency) \div 100
                  ELSE base_currency
         IN  { [ side |-> "SELL", qty |-> q ] }
    ELSE {}

\* Telegram(...).send: a message leaves for the chat, or the call raises
TelegramOutcomes == {"sent", "raised"}

\* NotifyRaises that never raises
NotifyRaises_Never(a, buy, sell, tg) == FALSE

\* the send that a live dispatched BUY or SELL makes before its order raises;
\* executeJob has no handler around it
NotifyRaises(a, buy, sell, tg) ==
    (buy \/ sell) /\ isLive(a) /\ isTelegramEnabled(a) /\ tg = "raised"

\* Dispatch without the tests of the live flag
Dispatch_NoLiveCheck(a, buy, sell, bal, base) ==
    IF buy THEN { [ side |-> "BUY", qty |-> bal ] }
    ELSE IF sell THEN { [ side |-> "SELL", qty |-> base ] }
    ELSE {}

\* the orders a dispatched BUY or SELL hands to the adapter: nothing unless
\* the bot is live; bal and base are the balances read just before
Dispatch(a, buy, sell, bal, base) ==
    IF isLive(a)
    THEN IF buy THEN marketBuy(a, bal, a.buypercent)
         ELSE IF sell THEN marketSell(a, base, a.sellpercent)
         ELSE {}
    ELSE {}

\* ------------------------------------------------------ executeJob: a tick

\* Reschedule that leaves the pending events in the queue
Reschedule_NoCancel(q, delay) == Append(q, delay)

\* `list(map(s.cancel, s.queue)); s.enter(delay, 1, executeJob, ...)`: the
\* pending events are cancelled and one is entered
Reschedule(q, delay) == << delay >>

\* fastProcessing whatever the simulation speed
fastProcessing_Always(a) == TRUE

\* a simulation at speed fast or fast-sample: the tick calls the next tick
\* itself instead of handing it to sched
fastProcessing(a) == a.sim_speed \in {"fast", "fast-sample"}

\* ProcessCandle without the test of the candle index
ProcessCandle_Always(imm, last, idx) == TRUE

\* polling is more frequent than the candles, but a candle is processed only
\* once: immediate_action is True or state.last_df_index != current_df_index
ProcessCandle(imm, last, idx) == imm \/ last # idx

\* a tick can start: runApp calls it, the tick before it calls it, or sched
\* runs the pending event
TickEnabled == pc \in {"start", "recurse"} \/ (pc = "run" /\ queue # << >>)

\* the queue once sched has taken the event it is running
Pending == IF pc = "run" THEN Tail(queue) ELSE queue

\* the tick up to the dispatch test: the decision and what it has already
\* written to the state.  r, p, px are the row, the price and the trade exit
\* price read by the tick; it is state.iterations
Decide(r, p, px, it) ==
    LET gc   == IF isSimulation(app) /\ it < RampUp THEN TRUE ELSE r.goldencross
        act0 == BuyNearHigh(app, Criteria(app, r, gc, last_action), p)
        long == /\ last_buy_size > 0 /\ last_buy_price > 0 /\ p > 0
                /\ last_action = "BUY"
        high == IF long /\ p > last_buy_high THEN p ELSE last_buy_high
        chg  == ChangePcntHigh(p, high)
        rec  == long /\ ~isLive(app) /\ last_buy_filled.n = 0
        fill == IF rec THEN [ n |-> last_buy_size, d |-> last_buy_price ]
                ELSE last_buy_filled
        fee  == IF rec
                THEN RoundDiv(fill.n * last_buy_price, fill.d * DefaultFee)
                ELSE last_buy_fee
        mrg  == Margin(app, p, last_buy_size, fill, fee)
        ex   == ExitTriggers(app, r, p, px, act0, mrg, chg, fib_low)
    IN  [ long |-> long, high |-> high, filled |-> fill, fee |-> fee,
          margin |-> IF long THEN mrg ELSE None,
          chg |-> IF long THEN chg ELSE None,
          action |-> IF long THEN ex.action ELSE act0,
          immediate |-> IF long THEN ex.immediate ELSE FALSE,
          trigger |-> IF long THEN ex.trigger ELSE "none" ]

\* SimulationSummarySells that never closes the open trade
SimulationSummarySells_Never(a, it, len, bc, sc) == FALSE

\* the simulation summary, printed on the tick of the last row of the frame,
\* counts a sell for the trade that is still open when selling at a loss is
\* allowed
SimulationSummarySells(a, it, len, bc, sc) ==
    it = len /\ bc > sc /\ allowSellAtLoss(a)

\* NoConnection placed after the increment of state.iterations
NoConnection_Counted ==
    /\ TickEnabled
    /\ isLive(app)
    /\ iterations < MaxIter
    /\ iterations' = iterations + 1
    /\ queue' = << RetryDelay >>
    /\ pc' = "run"
    /\ tick' = [ NoTick EXCEPT !.outcome = "noconn" ]
    /\ UNCHANGED << app, last_action, action, last_buy_price, last_buy_size,
                    last_buy_filled, last_buy_fee, last_buy_high, fib_low,
                    fib_high, buy_count, sell_count, last_df_index,
                    latches, trailing, df, control, websocket, trend, windows, candle, orders, restarted, granularity,
                    trading_data >>

\* the connectivity check fails: retry later
NoConnection ==
    /\ TickEnabled
    /\ isLive(app)
    /\ queue' = << RetryDelay >>
    /\ pc' = "run"
    /\ tick' = [ NoTick EXCEPT !.outcome = "noconn" ]
    /\ UNCHANGED << app, last_action, action, last_buy_price, last_buy_size,
                    last_buy_filled, last_buy_fee, last_buy_high, fib_low,
                    fib_high, buy_count, sell_count, iterations, last_df_index,
                    latches, trailing, df, control, websocket, trend, windows, candle, orders, restarted, granularity,
                    trading_data >>

\* fetching the candles raises (a timeout or another network error that the
\* exchange API does not turn into an empty response); executeJob has no
\* handler, so the exception leaves the tick
HistoryFails ==
    /\ TickEnabled
    /\ iterations < MaxIter
    /\ ~isSimulation(app)
    /\ iterations' = iterations + 1
    /\ queue' = Pending
    /\ pc' = "raised"
    /\ tick' = [ NoTick EXCEPT !.outcome = "raised", !.resp = "timeout" ]
    /\ UNCHANGED << app, last_action, action, last_buy_price, last_buy_size,
                    last_buy_filled, last_buy_fee, last_buy_high, fib_low,
                    fib_high, buy_count, sell_count, last_df_index, latches, trailing, df, control, websocket, trend, windows,
                    candle, orders, restarted, granularity, trading_data >>

\* base balances the exchange account can report, in hundredths
BaseBalances == {1000}

\* lengths of the frame a live tick can fetch
FrameLens == {MaxIter - 1, 300}

\* The tick proper, from the increment of state.iterations to its return or
\* to the exception it raises.  Inputs: adv - the exchange has closed a new
\* candle; dfl - rows of the frame; r, p, px - row, price and trade exit
\* price; b1, b6 - the 1h and 6h trends are bull; bal, base - the balances
\* read before an order; resp - what the exchange does with the order; d - the
\* decision Decide(r, p, px, iterations + 1) of the tick; tg - what the
\* Telegram send does.
Job(adv, dfl, p, b1, b6, bal, base, resp, d, tg) ==
    LET sim   == isSimulation(app)
        it    == iterations + 1
        idx   == IF sim THEN it ELSE candle + adv
        hasRow == IF sim THEN it <= trading_data ELSE TRUE
        len   == IF sim THEN trading_data ELSE dfl
        canSw == app.smart_switch = 1 /\ app.exchange \in {"binance", "coinbasepro"}
        sw15  == canSw /\ granularity = "1h" /\ b1 /\ b6
        g1    == IF sw15 THEN "15m" ELSE granularity
        sw1h  == canSw /\ g1 = "15m" /\ ~b1 /\ ~b6
        g2    == IF sw1h THEN "1h" ELSE g1
        q1    == IF sw15 \/ sw1h THEN << SwitchDelay >> ELSE Pending
        short == IF app.exchange = "binance" /\ g2 = "1d"
                 THEN len < MinRows(app, g2)
                 ELSE len < MinRows(app, g2) /\ ~sim
        q2    == IF short THEN << RetryDelay >> ELSE q1
        go    == ProcessCandle(d.immediate, last_df_index, idx)
        buy   == go /\ d.action = "BUY"
        sell  == go /\ d.action = "SELL"
        live  == isLive(app)
        tgerr == NotifyRaises(app, buy, sell, tg)
        sent  == IF tgerr THEN {} ELSE Dispatch(app, buy, sell, bal, base)
        fails == tgerr \/ ((buy \/ sell) /\ live /\ resp = "raised")
        fibs  == IF (buy /\ ~live /\ app.is_verbose = 0)
                    \/ (sell /\ live /\ ~tgerr /\ app.is_verbose = 0)
                 THEN FibUpdate(FibBands(p), fib_low, fib_high)
                 ELSE [ low |-> fib_low, high |-> fib_high ]
        bc    == IF buy THEN buy_count + 1 ELSE buy_count
        sc    == IF sell THEN sell_count + 1 ELSE sell_count
        sum   == go /\ ~fails /\ SimulationSummarySells(app, it, len, bc, sc)
        itEnd == IF go THEN it ELSE it - 1
    IN  /\ TickEnabled
        /\ iterations < MaxIter
        /\ candle + adv <= MaxCandles
        /\ ~(sim /\ trading_data = 0)
        /\ bc <= MaxTrades /\ sc + (IF sum THEN 1 ELSE 0) <= MaxTrades
        /\ granularity' = g2
        /\ candle' = IF sim THEN candle ELSE candle + adv
        /\ IF ~hasRow
           THEN /\ iterations' = it
                /\ queue' = q2
                /\ pc' = "run"
                /\ tick' = [ NoTick EXCEPT !.outcome = "empty" ]
                /\ UNCHANGED << last_action, action, last_buy_price,
                                last_buy_size, last_buy_filled, last_buy_fee,
                                last_buy_high, fib_low, fib_high, buy_count,
                                sell_count, last_df_index, orders >>
           ELSE IF p = 0
           THEN /\ iterations' = it
                /\ queue' = q2
                /\ pc' = "raised"
                /\ tick' = [ NoTick EXCEPT !.outcome = "raised" ]
                /\ UNCHANGED << last_action, action, last_buy_price,
                                last_buy_size, last_buy_filled, last_buy_fee,
                                last_buy_high, fib_low, fib_high, buy_count,
                                sell_count, last_df_index, orders >>
           ELSE /\ action' = d.action
                /\ last_buy_filled' = d.filled
                /\ last_buy_fee' = d.fee
                /\ fib_low' = fibs.low
                /\ fib_high' = fibs.high
                /\ buy_count' = bc
                /\ sell_count' = IF sum THEN sc + 1 ELSE sc
                /\ orders' = orders \cup sent
                /\ last_buy_price' = IF buy THEN p
                                     ELSE IF sell /\ ~fails THEN 0
                                     ELSE last_buy_price
                /\ last_buy_high' = IF buy THEN p
                                    ELSE IF sell /\ ~fails THEN 0
                                    ELSE d.high
                /\ last_buy_size' = IF buy /\ tgerr THEN last_buy_size
                                    ELSE IF buy
                                    THEN (IF live THEN bal ELSE DummyBuySize)
                                    ELSE IF sell /\ ~fails THEN 0
                                    ELSE last_buy_size
                /\ last_action' = IF (buy \/ sell) /\ ~fails THEN d.action
                                  ELSE last_action
                /\ last_df_index' = IF go /\ ~fails THEN idx ELSE last_df_index
                /\ iterations' = IF fails THEN it ELSE itEnd
                /\ tick' = [ NoTick EXCEPT
                               !.outcome = IF fails THEN "raised"
                                           ELSE IF go THEN "done" ELSE "skipped",
                               !.action = d.action,
                               !.margin = d.margin,
                               !.chg = d.chg,
                               !.trigger = d.trigger,
                               !.immediate = d.immediate,
                               !.resp = IF (buy \/ sell) /\ live /\ ~tgerr
                                        THEN resp ELSE "none",
                               !.notify = IF (buy \/ sell) /\ live
                                             /\ isTelegramEnabled(app)
                                          THEN tg ELSE "none",
                               !.short = short,
                               !.price = p ]
                /\ IF fails
                   THEN queue' = q2 /\ pc' = "raised"
                   ELSE IF sim
                   THEN IF itEnd < SimStop
                        THEN IF fastProcessing(app)
                             THEN queue' = q2 /\ pc' = "recurse"
                             ELSE queue' = << SlowSimDelay >> /\ pc' = "run"
                        ELSE queue' = q2 /\ pc' = "run"
                   ELSE queue' = Reschedule(q2, PollDelay) /\ pc' = "run"

\* one activation of executeJob that gets past the candle fetch
executeJob ==
    \E adv \in (IF isSimulation(app) THEN {0} ELSE {0, 1}) :
    \E r \in Rows, p \in Prices \cup {0} :
    \E dfl \in (IF isSimulation(app) THEN {trading_data} ELSE FrameLens) :
    \E px \in (IF app.sellatresistance /\ last_action = "BUY"
                THEN {p, p + 1} ELSE {p}) :
    \E sw \in (IF app.smart_switch # 1 THEN {"mixed"}
                ELSE IF granularity = "1h" THEN {"bull", "mixed"}
                ELSE {"bear", "mixed"}) :
    \E d \in { Decide(r, p, px, iterations + 1) } :
    LET idx  == IF isSimulation(app) THEN iterations + 1 ELSE candle + adv
        live == /\ isLive(app) /\ p # 0
                /\ ProcessCandle(d.immediate, last_df_index, idx)
    IN  \E bal \in (IF live /\ d.action = "BUY" THEN QuoteBalances ELSE {0}) :
        \E base \in (IF live /\ d.action = "SELL" THEN BaseBalances ELSE {0}) :
        \E tg \in (IF live /\ d.action \in {"BUY", "SELL"}
                       /\ isTelegramEnabled(app)
                    THEN TelegramOutcomes ELSE {"none"}) :
        \E resp \in (IF live /\ d.action \in {"BUY", "SELL"} /\ tg # "raised"
                      THEN {"ok", "rejected", "raised"} ELSE {"none"}) :
            /\ Job(adv, dfl, p, sw = "bull", sw = "bull" \/ sw = "mixed",
                   bal, base, resp, d, tg)
            /\ UNCHANGED << app, latches, trailing, df, control, websocket, trend, windows, restarted, trading_data >>

\* a simulation that was handed no candles returns at once
EmptyData ==
    /\ TickEnabled
    /\ iterations < MaxIter
    /\ isSimulation(app)
    /\ trading_data = 0
    /\ iterations' = iterations + 1
    /\ queue' = Pending
    /\ pc' = "run"
    /\ tick' = [ NoTick EXCEPT !.outcome = "empty" ]
    /\ UNCHANGED << app, last_action, action, last_buy_price, last_buy_size,
                    last_buy_filled, last_buy_fee, last_buy_high, fib_low,
                    fib_high, buy_count, sell_count, last_df_index, latches, trailing, df, control, websocket, trend, windows,
                    candle, orders, restarted, granularity, trading_data >>

\* ------------------------------------------------------------------ main

\* the exception handler of main re-launches the application once
Restart ==
    /\ pc = "raised"
    /\ app.autorestart
    /\ ~restarted
    /\ restarted' = TRUE
    /\ pc' = "start"
    /\ UNCHANGED << app, last_action, action, last_buy_price, last_buy_size,
                    last_buy_filled, last_buy_fee, last_buy_high, fib_low,
                    fib_high, buy_count, sell_count, iterations, last_df_index,
                    latches, trailing, df, control, websocket, trend, windows, candle, orders, queue, granularity, trading_data,
                    tick >>

\* the exception leaves main
Crash ==
    /\ pc = "raised"
    /\ ~app.autorestart \/ restarted
    /\ pc' = "dead"
    /\ UNCHANGED << app, last_action, action, last_buy_price, last_buy_size,
                    last_buy_filled, last_buy_fee, last_buy_high, fib_low,
                    fib_high, buy_count, sell_count, iterations, last_df_index,
                    latches, trailing, df, control, websocket, trend, windows, candle, orders, queue, granularity, trading_data,
                    tick, restarted >>

\* s.run() finds the queue empty and returns
Exit ==
    /\ pc = "run"
    /\ queue = << >>
    /\ pc' = "done"
    /\ UNCHANGED << app, last_action, action, last_buy_price, last_buy_size,
                    last_buy_filled, last_buy_fee, last_buy_high, fib_low,
                    fib_high, buy_count, sell_count, iterations, last_df_index,
                    latches, trailing, df, control, websocket, trend, windows, candle, orders, queue, granularity, trading_data,
                    tick, restarted >>

\* ---------------------------------------------------------------- start-up

\* no retry loop is running
RetryIdle ==
    /\ loop = "none"
    /\ try_cnt = 0
    /\ write_ok = FALSE
    /\ retries = 0
    /\ waits = 0
    /\ data_json = {}
    /\ helper_data = {}

\* what <market>.json holds: botcontrol.status, botcontrol.manualsell and the
\* margin of the last tick
Contents == [ status : {"active", "paused"}, manualsell : BOOLEAN,
              margin : {0, 1} ]

\* the file TelegramBotHelper.__init__ writes
NewContents == [ status |-> "active", manualsell |-> FALSE, margin |-> 0 ]

\* a process that is not inside an operation on the file
IdleHelper == [ pc |-> "idle", op |-> "none", arg |-> 0, data |-> NewContents,
                seen |-> "none", result |-> "WAIT" ]

\* the candle of the hour before any trade message
FirstCandle == [ high |-> 2, close |-> 2, low |-> 2 ]

\* a trend getter that has not been called
NotCalled == [ called |-> FALSE, ema12 |-> 0, ema26 |-> 0, ret |-> FALSE ]

\* no pair of simulations is being compared
NoWindows ==
    [ a |-> << >>, b |-> << >>, iterations |-> 0,
      action |-> [ a |-> "", b |-> "" ] ]

\* the control files and the WebSocket are not in use
ControlIdle ==
    /\ trend = [ h1 |-> NotCalled, h6 |-> NotCalled ]
    /\ windows = NoWindows
    /\ ws_candle = FirstCandle
    /\ ws_thread = [ pc |-> "recv", price |-> 0 ]
    /\ ws_view = [ candle |-> FirstCandle, during |-> "none" ]
    /\ RetryIdle
    /\ file = [ form |-> "whole", data |-> NewContents ]
    /\ bot_helper = IdleHelper
    /\ tg_helper = IdleHelper
    /\ manual_pending = FALSE

\* the configurations the bot is run with
AppConfigs ==
    { [ DefaultApp EXCEPT !.is_sim = 1, !.sim_speed = "fast" ],
      [ DefaultApp EXCEPT !.is_sim = 1, !.sim_speed = "slow",
                          !.sell_at_loss = 0, !.sell_upper_pcnt = 3 * PCT ],
      [ DefaultApp EXCEPT !.sell_lower_pcnt = -2 * PCT,
                          !.trailing_stop_loss = -3 * PCT ],
      [ DefaultApp EXCEPT !.is_live = 1, !.autorestart = TRUE,
                          !.telegram = TRUE ],
      [ DefaultApp EXCEPT !.is_live = 1, !.buymaxsize = 30000,
                          !.buypercent = 50, !.exchange = "binance",
                          !.smart_switch = 1, !.sell_at_loss = 0,
                          !.sellatresistance = TRUE,
                          !.disablebuynearhigh = TRUE ] }

\* the last order of the account, when it was a buy
SeedPrice == 100
SeedSize == 100000

\* what start-up finds on a live account: balances and the last done order
Seeds == {"flat", "long", "last-buy", "last-sell"}

\* the state once the module has been loaded: AppState() with the position
\* seeded from the account
Init ==
    /\ app \in AppConfigs
    /\ \E seed \in (IF isLive(app) THEN Seeds ELSE {"none"}) :
        /\ last_action = CASE seed \in {"long", "last-buy"} -> "BUY"
                           [] seed \in {"flat", "last-sell"} -> "SELL"
                           [] OTHER -> ""
        /\ last_buy_price = IF seed = "last-buy" THEN SeedPrice ELSE 0
        /\ last_buy_size = IF seed = "last-buy" THEN SeedSize ELSE 0
        /\ last_buy_filled = IF seed = "last-buy"
                             THEN [ n |-> SeedSize, d |-> SeedPrice ]
                             ELSE [ n |-> 0, d |-> 1 ]
        /\ last_buy_fee = IF seed = "last-buy"
                          THEN RoundDiv(SeedSize, TakerFee) ELSE 0
    /\ action = ""
    /\ last_buy_high = 0
    /\ fib_low = 0
    /\ fib_high = 0
    /\ buy_count = 0
    /\ sell_count = 0
    /\ iterations = 0
    /\ last_df_index = 0
    /\ prevent_loss = FALSE
    /\ tsl_triggered = "False"
    /\ tsl_trigger = app.trailing_stop_loss_trigger
    /\ tsl_pcnt = app.trailing_stop_loss
    /\ tsl_max = FALSE
    /\ candle = 1
    /\ orders = {}
    /\ queue = << >>
    /\ pc = "start"
    /\ restarted = FALSE
    /\ granularity = "1h"
    /\ trading_data \in (IF isSimulation(app) THEN 0 .. (MaxIter - 1) ELSE {0})
    /\ tick = NoTick
    /\ trailing_buy = FALSE
    /\ trailing_buy_immediate = FALSE
    /\ waiting_buy_price = 0
    /\ trailing_sell = FALSE
    /\ trailing_sell_immediate = FALSE
    /\ waiting_sell_price = None
    /\ df = << >>
    /\ ControlIdle

Next ==
    \/ NoConnection
    \/ HistoryFails
    \/ EmptyData
    \/ executeJob
    \/ Restart
    \/ Crash
    \/ Exit

Spec == Init /\ [][Next]_vars

\* ------------------------------------------------- Strategy.py: the signals

\* app.sellatloss, as Strategy.py reads the option
sellatloss(a) == a.sell_at_loss = 1

\* What the custom strategy object CS does on a tick.  err: tradeSignals
\* raises; buy, sell: buySignal() and sellSignal(); override: buy_pts >=
\* sell_override_pts; immed: buy_pts >= immed_buy_pts, read when buy holds;
\* immed_sell: sell_pts >= immed_sell_pts, read when sell holds
CSNone ==
    [ err |-> FALSE, buy |-> FALSE, sell |-> FALSE, override |-> FALSE,
      immed |-> FALSE, immed_sell |-> FALSE ]

CSError ==
    [ err |-> TRUE, buy |-> FALSE, sell |-> FALSE, override |-> FALSE,
      immed |-> FALSE, immed_sell |-> FALSE ]

CSOutcomes ==
    { c \in [ err : {FALSE}, buy : BOOLEAN, sell : BOOLEAN, override : BOOLEAN,
              immed : BOOLEAN, immed_sell : BOOLEAN ] :
        (c.immed => c.buy) /\ (c.immed_sell => c.sell) }
    \cup { CSError }

\* The bundled Strategy_CS.tradeSignals takes two arguments and get_action
\* passes four, so the call raises on every tick; only a user-supplied
\* Strategy_myCS can do anything else.
CSInputs(a) ==
    IF ~a.enable_custom_strategy THEN { CSNone }
    ELSE IF a.strategy_myCS THEN CSOutcomes
    ELSE { CSError }

\* CS.buySignal: what it returns and the state it leaves; the immediate flag
\* is written only when the buy criteria are met
buySignal(a, st, cs) ==
    IF cs.buy
    THEN [ ret |-> TRUE,
           st  |-> [ st EXCEPT !.trailing_buy_immediate =
                         a.trailingbuyimmediatepcnt # None /\ cs.immed ] ]
    ELSE [ ret |-> FALSE, st |-> st ]

is_buy_signal(a, la, r, price, CS_ready, cs) ==
    LET ema == ema12gtema26co(r) \/ a.disablebuyema
        obv == r.obv_pc > -5 * PCT \/ a.disablebuyobv
        eri == r.eri_buy \/ a.disablebuyelderray
    IN  IF /\ la = "SELL"
           /\ a.disablebuynearhigh
           /\ price * 100 > CloseMax * (100 - a.nobuynearhighpcnt)
        THEN FALSE
        ELSE IF ~a.disablebullonly /\ ~r.goldencross THEN FALSE
        ELSE IF CS_ready THEN cs.buy
        ELSE IF a.disablebuyema /\ a.disablebuymacd THEN FALSE
        ELSE IF /\ ema
                /\ (macdgtsignal(r) \/ a.disablebuymacd)
                /\ obv /\ eri
                /\ la # "BUY"
        THEN TRUE
        ELSE IF /\ ema
                /\ macdgtsignalco(r)
                /\ obv /\ eri
                /\ la # "BUY"
        THEN TRUE
        ELSE FALSE

\* CS.sellSignal: what it returns and the state it leaves
sellSignal(a, st, cs) ==
    IF cs.sell
    THEN [ ret |-> TRUE,
           st  |-> [ st EXCEPT !.trailing_sell_immediate =
                         a.trailingsellimmediatepcnt # None /\ cs.immed_sell ] ]
    ELSE [ ret |-> FALSE, st |-> st ]

is_sell_signal(a, r, CS_ready, cs) ==
    IF CS_ready THEN cs.sell
    ELSE IF a.disablebuyema /\ a.disablebuymacd THEN FALSE
    ELSE ema12ltema26co(r) /\ (macdltsignal(r) \/ a.disablebuymacd)

\* get_action: the action, whether the call raised, and CS_ready afterwards.
\* When tradeSignals raises, CS_ready is cleared and indicatorvalues is left
\* unbound, so every return statement raises UnboundLocalError.
get_action(a, la, r, price, CS_ready, cs) ==
    IF CS_ready /\ cs.err
    THEN [ action |-> "", raised |-> TRUE, CS_ready |-> FALSE ]
    ELSE [ action |-> IF la # "BUY" /\ is_buy_signal(a, la, r, price, CS_ready, cs)
                      THEN "BUY"
                      ELSE IF /\ la \notin {"", "SELL"}
                              /\ is_sell_signal(a, r, CS_ready, cs)
                      THEN "SELL"
                      ELSE "WAIT",
           raised |-> FALSE,
           CS_ready |-> CS_ready ]

\* ------------------------------------------- Strategy.py: is_sell_trigger

\* the fields of state that Strategy.py and the custom strategy read and
\* write
Latches ==
    [ prevent_loss |-> prevent_loss, tsl_triggered |-> tsl_triggered,
      tsl_trigger |-> tsl_trigger, tsl_pcnt |-> tsl_pcnt, tsl_max |-> tsl_max,
      trailing_buy |-> trailing_buy,
      trailing_buy_immediate |-> trailing_buy_immediate,
      waiting_buy_price |-> waiting_buy_price,
      trailing_sell |-> trailing_sell,
      trailing_sell_immediate |-> trailing_sell_immediate,
      waiting_sell_price |-> waiting_sell_price ]

\* if ALL CUSTOM signals are still buy and strength is strong don't trigger a
\* sell yet
sell_trigger_override(a, CS_ready, cs) ==
    CS_ready /\ a.selltriggeroverride /\ cs.override

\* the branch that latches prevent_loss
prevent_loss_latch(a, st, margin) ==
    a.preventloss /\ ~st.prevent_loss /\ margin > a.preventlosstrigger

\* prevent_loss_exit without the test of the latch
prevent_loss_exit_NoLatch(a, st, margin) ==
    /\ a.preventloss
    /\ ~prevent_loss_latch(a, st, margin)
    /\ margin <= a.preventlossmargin

\* the elif branch that returns True: time to sell before losing funds
prevent_loss_exit(a, st, margin) ==
    /\ a.preventloss
    /\ ~prevent_loss_latch(a, st, margin)
    /\ \/ st.prevent_loss /\ margin <= a.preventlossmargin
       \/ a.preventlosstrigger = 0 /\ margin <= a.preventlossmargin

\* the no-sell band
no_sell_bounds(a, margin) ==
    /\ a.nosellminpcnt # None /\ margin >= a.nosellminpcnt
    /\ a.nosellmaxpcnt # None /\ margin <= a.nosellmaxpcnt

\* tsl_next_trigger without round()
tsl_next_trigger_NoRound(a, st) ==
    (st.tsl_trigger * a.tsl_trigger_multiplier) \div 10

\* round(state.tsl_trigger * app.tsl_trigger_multiplier): a whole percent
tsl_next_trigger(a, st) ==
    RoundDiv(st.tsl_trigger * a.tsl_trigger_multiplier, 10 * PCT) * PCT

\* float(round(state.tsl_pcnt * app.tsl_multiplier, 1))
tsl_next_pcnt(a, st) ==
    RoundDiv(st.tsl_pcnt * a.tsl_multiplier, 100) * 10

\* the latches after the trailing-stop block has run (state.tsl_pcnt set)
trailing_stop_loss(a, st, margin) ==
    IF a.dynamic_tsl
    THEN LET over  == /\ a.tsl_trigger_multiplier # None
                      /\ margin > tsl_next_trigger(a, st)
             trg   == IF over /\ ~st.tsl_max THEN "False" ELSE st.tsl_triggered
             npcnt == tsl_next_pcnt(a, st)
         IN  IF trg = "False"
             THEN IF over
                  THEN [ st EXCEPT !.tsl_triggered = "True",
                                   !.tsl_trigger = tsl_next_trigger(a, st),
                                   !.tsl_pcnt = npcnt,
                                   !.tsl_max = IF npcnt <= a.tsl_max_pcnt
                                               THEN TRUE ELSE @ ]
                  ELSE IF margin > st.tsl_trigger
                  THEN [ st EXCEPT !.tsl_triggered = "True" ]
                  ELSE [ st EXCEPT !.tsl_triggered = trg ]
             ELSE [ st EXCEPT !.tsl_triggered = trg ]
    ELSE IF margin > st.tsl_trigger
    THEN [ st EXCEPT !.tsl_triggered = "1" ]
    ELSE st

\* is_sell_trigger: what it returns, the latches it leaves and the branch
\* that returned.  fib is state.fib_low, in cents.
is_sell_trigger(a, st, CS_ready, cs, price, price_exit, margin, chg, fib) ==
    LET st1 == [ st EXCEPT !.prevent_loss =
                     IF prevent_loss_latch(a, st, margin) THEN TRUE ELSE @ ]
        st2 == IF st1.tsl_pcnt # None
               THEN trailing_stop_loss(a, st1, margin) ELSE st1
        ret(b, x, t) == [ sell |-> b, st |-> x, trigger |-> t ]
    IN  IF sell_trigger_override(a, CS_ready, cs)
        THEN ret(FALSE, st, "override")
        ELSE IF prevent_loss_exit(a, st, margin)
        THEN ret(TRUE, st1, "preventloss")
        ELSE IF ~sellatloss(a) /\ margin <= 0
        THEN ret(FALSE, st1, "veto")
        ELSE IF no_sell_bounds(a, margin)
        THEN ret(FALSE, st1, "band")
        ELSE IF /\ st2.tsl_pcnt # None
                /\ st2.tsl_triggered = "True"
                /\ chg < st2.tsl_pcnt
        THEN ret(TRUE, st2, "tsl")
        ELSE IF /\ ~a.disablefailsafelowerpcnt
                /\ sellatloss(a)
                /\ a.sell_lower_pcnt # None
                /\ margin < a.sell_lower_pcnt
        THEN ret(TRUE, st2, "lower")
        ELSE IF /\ ~a.disablefailsafefibonaccilow
                /\ sellatloss(a)
                /\ a.sell_lower_pcnt = None
                /\ fib > 0
                /\ fib >= price * 100
        THEN ret(TRUE, st2, "fib")
        ELSE IF /\ ~a.disableprofitbankupperpcnt
                /\ a.sell_upper_pcnt # None
                /\ margin > a.sell_upper_pcnt
        THEN ret(TRUE, st2, "upper")
        ELSE IF /\ a.sellatresistance
                /\ margin >= 2 * PCT
                /\ price > 0
                /\ price >= price_exit
                /\ (sellatloss(a) \/ margin > 0)
        THEN ret(TRUE, st2, "resistance")
        ELSE ret(FALSE, st2, "none")

\* is_wait_trigger without the prevent-loss bypass
is_wait_trigger_NoBypass(a, st, act, margin, goldencross) ==
    IF act = "BUY" /\ ~a.disablebullonly /\ ~goldencross THEN TRUE
    ELSE IF act = "SELL" /\ ~sellatloss(a) /\ margin <= 0 THEN TRUE
    ELSE IF act = "SELL" /\ no_sell_bounds(a, margin) THEN TRUE
    ELSE FALSE

\* is_wait_trigger; act is state.action
is_wait_trigger(a, st, act, margin, goldencross) ==
    IF \/ st.prevent_loss /\ margin <= a.preventlossmargin
       \/ a.preventlosstrigger = 0 /\ margin <= a.preventlossmargin
    THEN FALSE
    ELSE IF act = "BUY" /\ ~a.disablebullonly /\ ~goldencross THEN TRUE
    ELSE IF act = "SELL" /\ ~sellatloss(a) /\ margin <= 0 THEN TRUE
    ELSE IF act = "SELL" /\ no_sell_bounds(a, margin) THEN TRUE
    ELSE FALSE

\* ------------------------------------------- Strategy.py: the trailing buy

\* the change of price from the waiting price w, truncated to hundredths of
\* a percent
PriceChange(w, price) == ((price - w) * 100 * PCT) \div w

\* a waiting price that is seeded again on every call
TrailingBuyArmed_Never(st) == FALSE

\* a BUY is already waiting for its price
TrailingBuyArmed(st) == st.trailing_buy /\ st.waiting_buy_price > 0

\* a trailing buy that never waits for the price to rise
BelowTrailingBuyPcnt_Never(a, pricechange) == FALSE

\* pricechange < trailingbuypcnt * 0.9
BelowTrailingBuyPcnt(a, pricechange) ==
    10 * pricechange < 9 * a.trailingbuypcnt

\* check_trailing_buy that seeds the waiting price without arming
check_trailing_buy_NotArmed(a, st, price) ==
    LET armed       == TrailingBuyArmed(st)
        w           == IF armed THEN st.waiting_buy_price ELSE price
        pricechange == IF armed THEN PriceChange(w, price) ELSE 0
        st1         == [ st EXCEPT !.waiting_buy_price = w ]
    IN  IF price < w
        THEN [ action |-> "WAIT", immediate |-> FALSE,
               st |-> [ st1 EXCEPT !.waiting_buy_price = price ] ]
        ELSE IF /\ a.trailingbuyimmediatepcnt # None
                /\ (st.trailing_buy_immediate \/ a.trailingimmediatebuy)
                /\ pricechange > a.trailingbuyimmediatepcnt
        THEN [ action |-> "BUY", immediate |-> TRUE, st |-> st1 ]
        ELSE IF BelowTrailingBuyPcnt(a, pricechange)
        THEN [ action |-> "WAIT", immediate |-> FALSE, st |-> st1 ]
        ELSE [ action |-> "BUY", immediate |-> FALSE, st |-> st1 ]

\* check_trailing_buy on a BUY: the action, immediate_action and the state it
\* leaves
check_trailing_buy(a, st, price) ==
    LET armed       == TrailingBuyArmed(st)
        w           == IF armed THEN st.waiting_buy_price ELSE price
        pricechange == IF armed THEN PriceChange(w, price) ELSE 0
        st1         == [ st EXCEPT !.waiting_buy_price = w,
                                   !.trailing_buy = TRUE ]
    IN  IF price < w
        THEN [ action |-> "WAIT", immediate |-> FALSE,
               st |-> [ st1 EXCEPT !.waiting_buy_price = price ] ]
        ELSE IF /\ a.trailingbuyimmediatepcnt # None
                /\ (st.trailing_buy_immediate \/ a.trailingimmediatebuy)
                /\ pricechange > a.trailingbuyimmediatepcnt
        THEN [ action |-> "BUY", immediate |-> TRUE, st |-> st1 ]
        ELSE IF BelowTrailingBuyPcnt(a, pricechange)
        THEN [ action |-> "WAIT", immediate |-> FALSE, st |-> st1 ]
        ELSE [ action |-> "BUY", immediate |-> FALSE, st |-> st1 ]

\* ------------------------------------------ Strategy.py: the trailing sell

\* pricechange > trailingsellpcnt * 0.9, without the 10% fluctuation
AboveTrailingSellPcnt_NoBand(a, pricechange) ==
    pricechange > a.trailingsellpcnt

\* pricechange > trailingsellpcnt * 0.9
AboveTrailingSellPcnt(a, pricechange) ==
    10 * pricechange > 9 * a.trailingsellpcnt

\* check_trailing_sell on a SELL: the action, immediate_action and the state
\* it leaves
check_trailing_sell(a, st, price) ==
    IF ~st.trailing_sell
    THEN [ action |-> "SELL", immediate |-> FALSE, st |-> st ]
    ELSE
    LET seeded      == st.waiting_sell_price # None
        w           == IF seeded THEN st.waiting_sell_price ELSE price
        pricechange == IF seeded THEN PriceChange(w, price) ELSE 0
        st1         == [ st EXCEPT !.waiting_sell_price = w ]
    IN  IF price >= w
        THEN [ action |-> "WAIT", immediate |-> FALSE,
               st |-> [ st1 EXCEPT !.waiting_sell_price = price ] ]
        ELSE IF /\ a.trailingsellbailoutpcnt # None
                /\ pricechange < a.trailingsellbailoutpcnt
        THEN [ action |-> "SELL", immediate |-> TRUE, st |-> st1 ]
        ELSE IF /\ a.trailingsellimmediatepcnt # None
                /\ (st.trailing_sell_immediate \/ a.trailingimmediatesell)
                /\ pricechange < a.trailingsellimmediatepcnt
        THEN [ action |-> "SELL", immediate |-> TRUE, st |-> st1 ]
        ELSE IF AboveTrailingSellPcnt(a, pricechange)
        THEN [ action |-> "WAIT", immediate |-> FALSE, st |-> st1 ]
        ELSE [ action |-> "SELL", immediate |-> FALSE, st |-> st1 ]

\* ------------------------------------------------ the strategy of a tick

\* margins and changes from the buy high a tick can measure, hundredths of a
\* percent
Margins == {-200, 0, 50, 250, 420, 700}

Chgs == {0, -400, -900}

\* rows that tell the signals of Strategy.py apart
StrategyRows ==
    { Row("gtco", "gt", TRUE, 0, TRUE),
      Row("gt", "gtco", TRUE, 0, TRUE),
      Row("ltco", "lt", TRUE, 0, TRUE),
      Row("gt", "gt", TRUE, 0, TRUE),
      Row("gtco", "gt", FALSE, 0, TRUE) }

\* The strategy of one tick: get_action, then is_sell_trigger when the
\* position is long, then is_wait_trigger on an action that is not WAIT,
\* then check_trailing_buy on a BUY that is left and check_trailing_sell on
\* a SELL that is left and that no exit trigger has made immediate.  A BUY
\* or a SELL that get_action takes from the custom strategy has gone
\* through CS.buySignal or CS.sellSignal.  m and c are the margin and the
\* change from the buy high, px the trade exit price.
StrategyDecide(a, la, st, fib, r, p, px, m, c, cs) ==
    LET ga   == get_action(a, la, r, p, a.enable_custom_strategy, cs)
        long == la = "BUY"
        st0  == IF ~long /\ ga.CS_ready /\ ga.action = "BUY"
                THEN buySignal(a, st, cs).st
                ELSE IF ga.CS_ready /\ ga.action = "SELL"
                THEN sellSignal(a, st, cs).st
                ELSE st
        trg  == IF long
                THEN is_sell_trigger(a, st0, ga.CS_ready, cs, p, px, m, c, fib)
                ELSE [ sell |-> FALSE, st |-> st0, trigger |-> "none" ]
        act1 == IF trg.sell THEN "SELL" ELSE ga.action
        wait == /\ act1 # "WAIT"
                /\ is_wait_trigger(a, trg.st, act1, IF long THEN m ELSE 0,
                                   r.goldencross)
        act2 == IF wait THEN "WAIT" ELSE act1
        tb   == IF act2 = "BUY"
                THEN check_trailing_buy(a, trg.st, p)
                ELSE IF act2 = "SELL" /\ ~trg.sell
                THEN check_trailing_sell(a, trg.st, p)
                ELSE [ action |-> act2, immediate |-> FALSE, st |-> trg.st ]
    IN  [ raised    |-> ga.raised,
          action    |-> tb.action,
          immediate |-> (trg.sell /\ ~wait) \/ tb.immediate,
          trigger   |-> trg.trigger,
          waited    |-> wait,
          override  |-> long /\ sell_trigger_override(a, ga.CS_ready, cs),
          intent    |-> act2,
          trailed   |-> act2 = "BUY" \/ (act2 = "SELL" /\ ~trg.sell),
          st        |-> tb.st ]

\* a tick whose strategy returns an action; the action is dispatched as
\* executeJob dispatches it, and no latch is reset
StrategyTick ==
    /\ pc = "strategy"
    /\ \E r \in StrategyRows, p \in Prices, cs \in CSInputs(app) :
       \E m \in (IF last_action = "BUY" THEN Margins ELSE {None}) :
       \E c \in (IF last_action = "BUY" /\ tsl_pcnt # None THEN Chgs ELSE {None}) :
       \E px \in (IF last_action = "BUY" /\ app.sellatresistance
                  THEN {p, p + 1} ELSE {p}) :
       \E d \in { StrategyDecide(app, last_action, Latches, fib_low,
                                 r, p, px, m, c, cs) } :
            /\ ~d.raised
            /\ action' = d.action
            /\ last_action' = IF d.action \in {"BUY", "SELL"}
                              THEN d.action ELSE last_action
            /\ prevent_loss' = d.st.prevent_loss
            /\ tsl_triggered' = d.st.tsl_triggered
            /\ tsl_trigger' = d.st.tsl_trigger
            /\ tsl_pcnt' = d.st.tsl_pcnt
            /\ tsl_max' = d.st.tsl_max
            /\ trailing_buy' = d.st.trailing_buy
            /\ trailing_buy_immediate' = d.st.trailing_buy_immediate
            /\ waiting_buy_price' = d.st.waiting_buy_price
            /\ trailing_sell' = d.st.trailing_sell
            /\ trailing_sell_immediate' = d.st.trailing_sell_immediate
            /\ waiting_sell_price' = d.st.waiting_sell_price
            /\ tick' = [ outcome |-> "done", action |-> d.action, margin |-> m,
                         resp |-> "none", trigger |-> d.trigger,
                         immediate |-> d.immediate, chg |-> c,
                         waited |-> d.waited, override |-> d.override,
                         short |-> FALSE, price |-> p, intent |-> d.intent,
                         trailed |-> d.trailed, notify |-> "none" ]
    /\ UNCHANGED << app, last_buy_price, last_buy_size, last_buy_filled,
                    last_buy_fee, last_buy_high, fib_low, fib_high, buy_count,
                    sell_count, iterations, last_df_index, candle, orders,
                    queue, pc, restarted, granularity, trading_data, df,
                    control, websocket, trend, windows >>

\* a tick whose get_action raises: nothing has been written yet
StrategyRaise ==
    /\ pc = "strategy"
    /\ \E cs \in CSInputs(app) :
            get_action(app, last_action, Row("gt", "gt", TRUE, 0, TRUE),
                       CloseMin, app.enable_custom_strategy, cs).raised
    /\ pc' = "raised"
    /\ tick' = [ NoTick EXCEPT !.outcome = "raised" ]
    /\ UNCHANGED << app, last_action, action, last_buy_price, last_buy_size,
                    last_buy_filled, last_buy_fee, last_buy_high, fib_low,
                    fib_high, buy_count, sell_count, iterations, last_df_index,
                    latches, trailing, df, control, websocket, trend, windows, candle, orders, queue, restarted, granularity,
                    trading_data >>

\* the exits and switches the strategy is run with
StrategyConfigs ==
    { [ DefaultApp EXCEPT !.preventloss = TRUE, !.preventlosstrigger = 2 * PCT,
                          !.sell_at_loss = 0 ],
      [ DefaultApp EXCEPT !.preventloss = TRUE, !.preventlosstrigger = 0 ],
      [ DefaultApp EXCEPT !.preventlosstrigger = 0, !.sell_at_loss = 0 ],
      [ DefaultApp EXCEPT !.trailing_stop_loss = -3 * PCT,
                          !.trailing_stop_loss_trigger = 3 * PCT ],
      [ DefaultApp EXCEPT !.trailing_stop_loss = -3 * PCT,
                          !.trailing_stop_loss_trigger = 3 * PCT,
                          !.dynamic_tsl = TRUE ],
      [ DefaultApp EXCEPT !.enable_custom_strategy = TRUE,
                          !.strategy_myCS = TRUE,
                          !.selltriggeroverride = TRUE,
                          !.preventloss = TRUE, !.preventlosstrigger = 2 * PCT,
                          !.trailing_stop_loss = -3 * PCT,
                          !.trailing_stop_loss_trigger = 3 * PCT,
                          !.dynamic_tsl = TRUE ],
      [ DefaultApp EXCEPT !.enable_custom_strategy = TRUE ],
      [ DefaultApp EXCEPT !.sell_lower_pcnt = -1 * PCT,
                          !.sell_upper_pcnt = 6 * PCT,
                          !.sellatresistance = TRUE,
                          !.nosellminpcnt = 2 * PCT, !.nosellmaxpcnt = 3 * PCT,
                          !.disablebuynearhigh = TRUE ],
      [ DefaultApp EXCEPT !.nosellminpcnt = 2 * PCT, !.nosellmaxpcnt = 3 * PCT,
                          !.preventloss = TRUE, !.preventlosstrigger = 0,
                          !.preventlossmargin = 3 * PCT ],
      [ DefaultApp EXCEPT !.enable_custom_strategy = TRUE,
                          !.strategy_myCS = TRUE,
                          !.trailingbuypcnt = 1 * PCT,
                          !.trailingbuyimmediatepcnt = 5 * PCT ],
      [ DefaultApp EXCEPT !.trailingbuypcnt = 12 * PCT,
                          !.trailingbuyimmediatepcnt = 5 * PCT,
                          !.trailingimmediatebuy = TRUE ],
      [ DefaultApp EXCEPT !.trailingbuypcnt = 12 * PCT ],
      [ DefaultApp EXCEPT !.trailingsellbailoutpcnt = -5 * PCT ],
      [ DefaultApp EXCEPT !.trailingsellpcnt = -10 * PCT ],
      [ DefaultApp EXCEPT !.enable_custom_strategy = TRUE,
                          !.strategy_myCS = TRUE,
                          !.trailingsellpcnt = -12 * PCT,
                          !.trailingsellimmediatepcnt = -5 * PCT ],
      DefaultApp }

\* the Fibonacci floor left by the last trade, cents
FibLows == {0, 100 * 100}

\* the configuration sets one of the trailing-sell options
TrailingSellConfigured(a) ==
    \/ a.trailingsellpcnt # 0
    \/ a.trailingsellimmediatepcnt # None
    \/ a.trailingsellbailoutpcnt # None

\* AppState() as Strategy.py finds it on the first tick; trailing sell is on
\* or off from the start
InitStrategy ==
    /\ app \in StrategyConfigs
    /\ last_action \in {"", "SELL"}
    /\ action = ""
    /\ last_buy_price = 0
    /\ last_buy_size = 0
    /\ last_buy_filled = [ n |-> 0, d |-> 1 ]
    /\ last_buy_fee = 0
    /\ last_buy_high = 0
    /\ fib_low \in (IF app = DefaultApp THEN FibLows ELSE {0})
    /\ fib_high = 0
    /\ buy_count = 0
    /\ sell_count = 0
    /\ iterations = 0
    /\ last_df_index = 0
    /\ prevent_loss = FALSE
    /\ tsl_triggered = "False"
    /\ tsl_trigger = app.trailing_stop_loss_trigger
    /\ tsl_pcnt = app.trailing_stop_loss
    /\ tsl_max = FALSE
    /\ candle = 1
    /\ orders = {}
    /\ queue = << >>
    /\ pc = "strategy"
    /\ restarted = FALSE
    /\ granularity = "1h"
    /\ trading_data = 0
    /\ tick = NoTick
    /\ trailing_buy = FALSE
    /\ trailing_buy_immediate = FALSE
    /\ waiting_buy_price = 0
    /\ trailing_sell \in (IF TrailingSellConfigured(app) THEN BOOLEAN ELSE {FALSE})
    /\ trailing_sell_immediate = FALSE
    /\ waiting_sell_price = None
    /\ df = << >>
    /\ ControlIdle

NextStrategy ==
    \/ StrategyTick
    \/ StrategyRaise

SpecStrategy == InitStrategy /\ [][NextStrategy]_vars

\* ------------------------------------------- Trading.py: cross-over signals

\* longest candle frame the model explores
MaxRows == 3

\* values an indicator (EMA12, EMA26, MACD, signal) can take on a candle
Levels == {1, 2}

\* pandas Series.shift(): the column moved down one row, NaN on the first row
shift(col) ==
    [ i \in 1 .. Len(col) |->
        IF i = 1 THEN [ nan |-> TRUE, v |-> FALSE ]
        ELSE [ nan |-> FALSE, v |-> col[i - 1] ] ]

\* pandas Series.ne(): element-wise !=; NaN differs from every value
ne(col, other) ==
    [ i \in 1 .. Len(col) |-> other[i].nan \/ col[i] # other[i].v ]

\* df.loc[df[flag] == False, co] = False
MaskWhereFalse(flag, co) ==
    [ i \in 1 .. Len(flag) |-> IF flag[i] = FALSE THEN FALSE ELSE co[i] ]

\* addEMABuySignals without the step that clears the cross-over flag on the
\* rows where the inequality does not hold
addEMABuySignals_NoMask(d) ==
    LET gt == [ i \in 1 .. Len(d) |-> d[i].ema12 > d[i].ema26 ]
        lt == [ i \in 1 .. Len(d) |-> d[i].ema12 < d[i].ema26 ]
        gtco == ne(gt, shift(gt))
        ltco == ne(lt, shift(lt))
    IN  [ i \in 1 .. Len(d) |->
            [ d[i] EXCEPT !.ema12gtema26 = gt[i], !.ema12gtema26co = gtco[i],
                          !.ema12ltema26 = lt[i], !.ema12ltema26co = ltco[i] ] ]

\* addEMABuySignals: the frame with its four EMA12/EMA26 columns
addEMABuySignals(d) ==
    LET gt == [ i \in 1 .. Len(d) |-> d[i].ema12 > d[i].ema26 ]
        lt == [ i \in 1 .. Len(d) |-> d[i].ema12 < d[i].ema26 ]
        gtco == MaskWhereFalse(gt, ne(gt, shift(gt)))
        ltco == MaskWhereFalse(lt, ne(lt, shift(lt)))
    IN  [ i \in 1 .. Len(d) |->
            [ d[i] EXCEPT !.ema12gtema26 = gt[i], !.ema12gtema26co = gtco[i],
                          !.ema12ltema26 = lt[i], !.ema12ltema26co = ltco[i] ] ]

\* addMACDBuySignals: the frame with its four MACD/signal columns
addMACDBuySignals(d) ==
    LET gt == [ i \in 1 .. Len(d) |-> d[i].macd > d[i].signal ]
        lt == [ i \in 1 .. Len(d) |-> d[i].macd < d[i].signal ]
        gtco == MaskWhereFalse(gt, ne(gt, shift(gt)))
        ltco == MaskWhereFalse(lt, ne(lt, shift(lt)))
    IN  [ i \in 1 .. Len(d) |->
            [ d[i] EXCEPT !.macdgtsignal = gt[i], !.macdgtsignalco = gtco[i],
                          !.macdltsignal = lt[i], !.macdltsignalco = ltco[i] ] ]

\* a candle as addEMA and addMACD leave it, its signal columns not yet set
Candle(e12, e26, mc, sg) ==
    [ ema12 |-> e12, ema26 |-> e26, macd |-> mc, signal |-> sg,
      ema12gtema26 |-> FALSE, ema12gtema26co |-> FALSE,
      ema12ltema26 |-> FALSE, ema12ltema26co |-> FALSE,
      macdgtsignal |-> FALSE, macdgtsignalco |-> FALSE,
      macdltsignal |-> FALSE, macdltsignalco |-> FALSE ]

\* addAll, as far as the cross-over columns go
addAll(d) == addMACDBuySignals(addEMABuySignals(d))

\* everything but the frame
notFrame ==
    << app, last_action, action, last_buy_price, last_buy_size,
       last_buy_filled, last_buy_fee, last_buy_high, fib_low, buy_count,
       sell_count, iterations, last_df_index, prevent_loss, tsl_triggered,
       tsl_trigger, tsl_pcnt, tsl_max, candle, orders, queue, pc,
       restarted, fib_high, granularity, trading_data, tick, trailing,
       control, websocket, trend, windows >>

\* the exchange returns a frame with one more candle and the technical
\* analysis adds its columns
NewCandle ==
    /\ pc = "frame"
    /\ Len(df) < MaxRows
    /\ \E e12 \in Levels, e26 \in Levels, mc \in Levels, sg \in Levels :
            df' = addAll(Append(df, Candle(e12, e26, mc, sg)))
    /\ UNCHANGED notFrame

\* the exchange returns a frame whose oldest candle has gone
OldestCandleGone ==
    /\ pc = "frame"
    /\ Len(df) > 1
    /\ df' = addAll(Tail(df))
    /\ UNCHANGED notFrame

\* AppState() of a bot that has not run a tick
Flat ==
    /\ last_action = ""
    /\ action = ""
    /\ last_buy_price = 0
    /\ last_buy_size = 0
    /\ last_buy_filled = [ n |-> 0, d |-> 1 ]
    /\ last_buy_fee = 0
    /\ last_buy_high = 0
    /\ fib_low = 0
    /\ fib_high = 0
    /\ buy_count = 0
    /\ sell_count = 0
    /\ iterations = 0
    /\ last_df_index = 0
    /\ prevent_loss = FALSE
    /\ tsl_triggered = "False"
    /\ tsl_trigger = app.trailing_stop_loss_trigger
    /\ tsl_pcnt = app.trailing_stop_loss
    /\ tsl_max = FALSE
    /\ candle = 1
    /\ orders = {}
    /\ queue = << >>
    /\ restarted = FALSE
    /\ granularity = "1h"
    /\ trading_data = 0
    /\ tick = NoTick
    /\ trailing_buy = FALSE
    /\ trailing_buy_immediate = FALSE
    /\ waiting_buy_price = 0
    /\ trailing_sell = FALSE
    /\ trailing_sell_immediate = FALSE
    /\ waiting_sell_price = None

\* the state of a trading bot that has not started
Unstarted ==
    /\ app = DefaultApp
    /\ Flat

InitSignals ==
    /\ Unstarted
    /\ pc = "frame"
    /\ df = << >>
    /\ ControlIdle

NextSignals ==
    \/ NewCandle
    \/ OldestCandleGone

SpecSignals == InitSignals /\ [][NextSignals]_vars

\* ---------------------------------------------- retry loops of control files

\* largest number of retries of the unbounded loop the model explores
MaxRetries == 7

\* the keys TelegramBot.__init__ makes sure data.json has, and the mark of the
\* pair newbot_save stores under "markets"
DataKeys == {"trades", "markets", "scannerexceptions"}
ThePair == "pair"

\* the retry loops: TelegramBot.__init__, newbot_save, _cleandata of
\* telegram_bot.py and _write_data of TelegramBotHelper
Loops == {"__init__", "newbot_save", "_cleandata", "_write_data"}

\* everything but the control files
notControl ==
    << app, last_action, action, last_buy_price, last_buy_size,
       last_buy_filled, last_buy_fee, last_buy_high, fib_low, buy_count,
       sell_count, iterations, last_df_index, prevent_loss, tsl_triggered,
       tsl_trigger, tsl_pcnt, tsl_max, candle, orders, queue, pc,
       restarted, fib_high, granularity, trading_data, tick, trailing, df,
       websocket, trend, windows >>

\* the market file and the two processes that share it
sharing == << file, bot_helper, tg_helper, manual_pending >>

\* `if k not in data: data.update({k: {}}); write_ok = write_data()`, where a
\* write that succeeds replaces the file by data
EnsureKey(s, k, ok) ==
    IF k \in s.data THEN s
    ELSE [ data |-> s.data \cup {k},
           file |-> IF ok THEN s.data \cup {k} ELSE s.file,
           write_ok |-> ok ]

\* `if not write_ok: sleep(1)`
SleepAfterFailure(ok, n) == IF ok THEN n ELSE n + 1

\* one pass of the loop of TelegramBot.__init__; rd - read_data succeeds,
\* w1, w2, w3 - the writes succeed
InitTry ==
    /\ loop = "__init__"
    /\ ~write_ok /\ try_cnt <= 5
    /\ \E rd, w1, w2, w3 \in BOOLEAN :
        LET s0 == [ data |-> IF rd THEN data_json ELSE helper_data,
                    file |-> data_json, write_ok |-> TRUE ]
            s1 == EnsureKey(s0, "trades", w1)
            s2 == EnsureKey(s1, "markets", w2)
            s3 == EnsureKey(s2, "scannerexceptions", w3)
        IN  /\ try_cnt' = try_cnt + 1
            /\ retries' = IF try_cnt > 0 THEN retries + 1 ELSE retries
            /\ write_ok' = s3.write_ok
            /\ waits' = SleepAfterFailure(s3.write_ok, waits)
            /\ data_json' = s3.file
            /\ helper_data' = s3.data
    /\ UNCHANGED << loop, sharing, notControl >>

\* one pass of the loop of newbot_save; exc - the call that raises inside the
\* try block, w - the write succeeds
NewbotSaveTry ==
    /\ loop = "newbot_save"
    /\ ~write_ok /\ try_cnt <= 5
    /\ \E exc \in {"none", "read_data", "send_telegram_message"}, w \in BOOLEAN :
        LET saved == {"markets", ThePair} \subseteq data_json
            data  == IF exc = "read_data" THEN helper_data
                     ELSE IF saved THEN data_json
                     ELSE data_json \cup {"markets", ThePair}
            wrote == exc # "read_data" /\ ~saved
            ok    == IF exc = "read_data" THEN FALSE
                     ELSE IF saved THEN exc = "none"
                     ELSE w
        IN  /\ try_cnt' = try_cnt + 1
            /\ retries' = IF try_cnt > 0 THEN retries + 1 ELSE retries
            /\ write_ok' = ok
            /\ waits' = IF wrote THEN SleepAfterFailure(w, waits) ELSE waits
            /\ data_json' = IF wrote /\ w THEN data ELSE data_json
            /\ helper_data' = data
    /\ UNCHANGED << loop, sharing, notControl >>

\* the while test of either loop fails
LoopEnds ==
    /\ loop \in {"__init__", "newbot_save"}
    /\ write_ok \/ try_cnt > 5
    /\ loop' = "done"
    /\ UNCHANGED << try_cnt, write_ok, retries, waits, data_json, helper_data,
                    sharing, notControl >>

\* `while self.helper.read_data(jfile) == False: sleep(0.2)`; rd - read_data
\* succeeds
CleanDataTry ==
    /\ loop = "_cleandata"
    /\ retries < MaxRetries
    /\ \E rd \in BOOLEAN :
        /\ try_cnt' = try_cnt + 1
        /\ retries' = IF try_cnt > 0 THEN retries + 1 ELSE retries
        /\ write_ok' = rd
        /\ loop' = IF rd THEN "done" ELSE loop
        /\ helper_data' = IF rd THEN data_json ELSE helper_data
    /\ UNCHANGED << waits, data_json, sharing, notControl >>

\* TelegramBotHelper._write_data: the write, and in its exception handler the
\* same write once more; ok1, ok2 - the writes succeed
WriteData ==
    /\ loop = "_write_data"
    /\ \E ok1, ok2 \in BOOLEAN :
        /\ try_cnt' = IF ok1 THEN 1 ELSE 2
        /\ retries' = IF ok1 THEN retries ELSE retries + 1
        /\ write_ok' = (ok1 \/ ok2)
        /\ data_json' = IF ok1 \/ ok2 THEN helper_data ELSE data_json
        /\ loop' = IF ok1 \/ ok2 THEN "done" ELSE "raised"
    /\ UNCHANGED << waits, helper_data, sharing, notControl >>

\* a retry loop is entered
InitRetry ==
    /\ Unstarted
    /\ pc = "control"
    /\ df = << >>
    /\ loop \in Loops
    /\ try_cnt = 0
    /\ write_ok = FALSE
    /\ retries = 0
    /\ waits = 0
    /\ data_json \in SUBSET (DataKeys \cup {ThePair})
    /\ helper_data \in (IF loop = "_write_data"
                        THEN {data_json \cup {"opentrades"}} ELSE {{}})
    /\ file = [ form |-> "whole", data |-> NewContents ]
    /\ bot_helper = IdleHelper
    /\ tg_helper = IdleHelper
    /\ manual_pending = FALSE
    /\ ws_candle = FirstCandle
    /\ ws_thread = [ pc |-> "recv", price |-> 0 ]
    /\ ws_view = [ candle |-> FirstCandle, during |-> "none" ]
    /\ trend = [ h1 |-> NotCalled, h6 |-> NotCalled ]
    /\ windows = NoWindows

NextRetry ==
    \/ InitTry
    \/ NewbotSaveTry
    \/ LoopEnds
    \/ CleanDataTry
    \/ WriteData

SpecRetry == InitRetry /\ [][NextRetry]_vars

\* ------------------------------------------- the market file and its users

\* the operations of TelegramBotHelper the trading bot calls on its file
BotOps == {"addmargin", "checkmanualbuysell", "updatebotstatus"}

\* their arguments: the margin of addmargin, the status of updatebotstatus
BotArgs(op) ==
    CASE op = "addmargin" -> {0, 1}
      [] op = "updatebotstatus" -> {"active", "paused"}
      [] OTHER -> {0}

\* what the operation changes in the data it has just read
Modify(op, d, arg) ==
    CASE op = "addmargin" -> [ d EXCEPT !.margin = arg ]
      [] op = "checkmanualbuysell" -> [ d EXCEPT !.manualsell = FALSE ]
      [] op = "updatebotstatus" -> [ d EXCEPT !.status = arg ]
      [] op = "manualsell" -> [ d EXCEPT !.manualsell = TRUE ]
      [] OTHER -> d

\* the operation writes the file back
Writes(op, d, arg) ==
    CASE op = "addmargin" -> TRUE
      [] op = "checkmanualbuysell" -> d.manualsell
      [] op = "updatebotstatus" -> d.status # arg
      [] op = "manualsell" -> TRUE
      [] OTHER -> FALSE

\* open(file, "w"): the file is emptied in place
Truncated(f) == [ form |-> "empty", data |-> NewContents ]

\* _read_data at the start of an operation, and its second attempt after a
\* JSONDecodeError: json.load of whatever the file holds at that moment
BotRead ==
    /\ pc = "control"
    /\ bot_helper.pc \in {"idle", "reread"}
    /\ \E op \in (IF bot_helper.pc = "idle" THEN BotOps ELSE {bot_helper.op}) :
       \E arg \in (IF bot_helper.pc = "idle" THEN BotArgs(op)
                    ELSE {bot_helper.arg}) :
        IF file.form = "whole"
        THEN /\ bot_helper' =
                    [ pc |-> IF Writes(op, file.data, arg) THEN "open" ELSE "idle",
                      op |-> op, arg |-> arg,
                      data |-> Modify(op, file.data, arg),
                      seen |-> "whole",
                      result |-> IF op = "checkmanualbuysell" /\ file.data.manualsell
                                 THEN "SELL" ELSE "WAIT" ]
             /\ manual_pending' =
                    IF op = "checkmanualbuysell" /\ file.data.manualsell
                    THEN FALSE ELSE manual_pending
        ELSE /\ bot_helper' =
                    [ bot_helper EXCEPT
                        !.pc = IF bot_helper.pc = "idle" THEN "reread" ELSE "raised",
                        !.op = op, !.arg = arg, !.seen = file.form,
                        !.result = "WAIT" ]
             /\ UNCHANGED manual_pending
    /\ UNCHANGED << file, tg_helper, retrying, notControl >>

\* _write_data: open(file, "w")
BotOpen ==
    /\ bot_helper.pc = "open"
    /\ file' = Truncated(file)
    /\ bot_helper' = [ bot_helper EXCEPT !.pc = "dump" ]
    /\ UNCHANGED << tg_helper, manual_pending, retrying, notControl >>

\* _write_data: json.dump(self.data, outfile) and the close of the file
BotDump ==
    /\ bot_helper.pc = "dump"
    /\ file' = [ form |-> "whole", data |-> bot_helper.data ]
    /\ bot_helper' = [ bot_helper EXCEPT !.pc = "idle" ]
    /\ UNCHANGED << tg_helper, manual_pending, retrying, notControl >>

\* what the Telegram process does with the file: it lists the bots, or
\* records a manual sell
TelegramOps == {"getBotList", "manualsell"}

\* read_data of the Telegram process, repeated while it reports False
TelegramRead ==
    /\ pc = "control"
    /\ tg_helper.pc \in {"idle", "retry"}
    /\ \E op \in (IF tg_helper.pc = "idle" THEN TelegramOps ELSE {tg_helper.op}) :
        tg_helper' =
            IF file.form = "whole"
            THEN [ pc |-> IF Writes(op, file.data, 0) THEN "write" ELSE "idle",
                   op |-> op, arg |-> 0,
                   data |-> Modify(op, file.data, 0),
                   seen |-> "whole", result |-> "WAIT" ]
            ELSE [ tg_helper EXCEPT !.pc = "retry", !.op = op, !.arg = 0,
                                    !.seen = file.form ]
    /\ UNCHANGED << file, bot_helper, manual_pending, retrying, notControl >>

\* write_data of the Telegram process: the file is replaced as a whole
TelegramWrite ==
    /\ tg_helper.pc = "write"
    /\ file' = [ form |-> "whole", data |-> tg_helper.data ]
    /\ tg_helper' = [ tg_helper EXCEPT !.pc = "idle" ]
    /\ manual_pending' = TRUE
    /\ UNCHANGED << bot_helper, retrying, notControl >>

\* the trading bot and the Telegram process are running and the file exists
InitSharing ==
    /\ Unstarted
    /\ pc = "control"
    /\ df = << >>
    /\ ControlIdle

NextSharing ==
    \/ BotRead
    \/ BotOpen
    \/ BotDump
    \/ TelegramRead
    \/ TelegramWrite

SpecSharing == InitSharing /\ [][NextSharing]_vars

\* ------------------------------------------------- the WebSocket client

\* prices of the trades the feed reports
TradePrices == {1, 2, 3}

\* everything but the WebSocket client
notWebSocket ==
    << app, last_action, action, last_buy_price, last_buy_size,
       last_buy_filled, last_buy_fee, last_buy_high, fib_low, buy_count,
       sell_count, iterations, last_df_index, prevent_loss, tsl_triggered,
       tsl_trigger, tsl_pcnt, tsl_max, candle, orders, queue, pc,
       restarted, fib_high, granularity, trading_data, tick, trailing, df,
       control, trend, windows >>

\* _listen: ws.recv() returns a trade and on_message starts on it
Recv ==
    /\ pc = "websocket"
    /\ ws_thread.pc = "recv"
    /\ \E p \in TradePrices : ws_thread' = [ pc |-> "high", price |-> p ]
    /\ UNCHANGED << ws_candle, ws_view, notWebSocket >>

\* on_message: `if price > candle.high: candles.at[i, "high"] = price`
SetHigh ==
    /\ ws_thread.pc = "high"
    /\ ws_candle' = IF ws_thread.price > ws_candle.high
                    THEN [ ws_candle EXCEPT !.high = ws_thread.price ]
                    ELSE ws_candle
    /\ ws_thread' = [ ws_thread EXCEPT !.pc = "close" ]
    /\ UNCHANGED << ws_view, notWebSocket >>

\* on_message: `candles.at[i, "close"] = price`
SetClose ==
    /\ ws_thread.pc = "close"
    /\ ws_candle' = [ ws_candle EXCEPT !.close = ws_thread.price ]
    /\ ws_thread' = [ ws_thread EXCEPT !.pc = "low" ]
    /\ UNCHANGED << ws_view, notWebSocket >>

\* on_message: `if price < candle.low: candles.at[i, "low"] = price`
SetLow ==
    /\ ws_thread.pc = "low"
    /\ ws_candle' = IF ws_thread.price < ws_candle.low
                    THEN [ ws_candle EXCEPT !.low = ws_thread.price ]
                    ELSE ws_candle
    /\ ws_thread' = [ ws_thread EXCEPT !.pc = "recv" ]
    /\ UNCHANGED << ws_view, notWebSocket >>

\* the tick, in the main thread: getHistoricalData reads
\* websocket.candles_1h
ReadCandles ==
    /\ pc = "websocket"
    /\ ws_view' = [ candle |-> ws_candle, during |-> ws_thread.pc ]
    /\ UNCHANGED << ws_candle, ws_thread, notWebSocket >>

\* the client has been started and holds the candle of the hour
InitWebSocket ==
    /\ Unstarted
    /\ pc = "websocket"
    /\ df = << >>
    /\ ControlIdle

NextWebSocket ==
    \/ Recv
    \/ SetHigh
    \/ SetClose
    \/ SetLow
    \/ ReadCandles

SpecWebSocket == InitWebSocket /\ [][NextWebSocket]_vars

\* ------------------------------------------------------ the trend getters

\* values of the ema12 and ema26 columns on the latest candle
EmaLevels == {1, 2, 3, 4}

\* everything but the trend getters
notTrend ==
    << last_action, action, last_buy_price, last_buy_size,
       last_buy_filled, last_buy_fee, last_buy_high, fib_low, buy_count,
       sell_count, iterations, last_df_index, prevent_loss, tsl_triggered,
       tsl_trigger, tsl_pcnt, tsl_max, candle, orders, queue, pc,
       restarted, fib_high, granularity, trading_data, tick, trailing, df,
       control, websocket, windows >>

\* the body shared by is1hEMA1226Bull and is6hEMA1226Bull: df_last is the
\* last row of the frame just fetched, with its bull flag; the value returned
\* is read from self.df_last, and any exception (an attribute self does not
\* have) is caught and gives False
EMA1226Bull(self, ema12, ema26) ==
    IF self.exchange = "dummy" THEN FALSE
    ELSE LET df_last == [ ema12 |-> ema12, ema26 |-> ema26,
                          bull |-> ema12 > ema26 ]
         IN  IF "df_last" \in DOMAIN self
             THEN self.df_last.bull
             ELSE FALSE

is1hEMA1226Bull(self, ema12, ema26) == EMA1226Bull(self, ema12, ema26)

is6hEMA1226Bull(self, ema12, ema26) == EMA1226Bull(self, ema12, ema26)

\* the tick asks for the 1h trend; ema12, ema26 are the columns of the latest
\* candle of the frame getAdditionalDf returns
Call1h ==
    /\ pc = "trend"
    /\ \E e12, e26 \in EmaLevels :
        trend' = [ trend EXCEPT !.h1 =
                     [ called |-> TRUE, ema12 |-> e12, ema26 |-> e26,
                       ret |-> is1hEMA1226Bull(app, e12, e26) ] ]
    /\ UNCHANGED << app, notTrend >>

\* the tick asks for the 6h trend
Call6h ==
    /\ pc = "trend"
    /\ \E e12, e26 \in EmaLevels :
        trend' = [ trend EXCEPT !.h6 =
                     [ called |-> TRUE, ema12 |-> e12, ema26 |-> e26,
                       ret |-> is6hEMA1226Bull(app, e12, e26) ] ]
    /\ UNCHANGED << app, notTrend >>

\* a bot on one of the exchanges, before its first tick
InitTrend ==
    /\ Unstarted
    /\ pc = "trend"
    /\ df = << >>
    /\ ControlIdle

NextTrend ==
    \/ Call1h
    \/ Call6h

SpecTrend == InitTrend /\ [][NextTrend]_vars

\* ------------------------------------- a simulation over two windows

\* candles of a simulation window
WindowLen == 3

\* everything but the pair of simulations
notWindows ==
    << app, last_action, action, last_buy_price, last_buy_size,
       last_buy_filled, last_buy_fee, last_buy_high, fib_low, buy_count,
       sell_count, iterations, last_df_index, prevent_loss, tsl_triggered,
       tsl_trigger, tsl_pcnt, tsl_max, candle, orders, queue, pc,
       restarted, fib_high, granularity, trading_data, tick,
       trailing_buy, trailing_buy_immediate, waiting_buy_price,
       trailing_sell, trailing_sell_immediate, waiting_sell_price,
       df, control, websocket, trend >>

\* df['close'].max() of the frame built from the whole of trading_data
close_max(w) ==
    CHOOSE p \in { w[k] : k \in DOMAIN w } :
        \A k \in DOMAIN w : p >= w[k]

\* the action of a simulation tick on a flat position: the row r of candle
\* it, its close as the price, the criteria and the near-high test; the
\* exit tests are skipped because no position is open
WindowAction(a, w, it, r) ==
    LET gc    == IF it < RampUp THEN TRUE ELSE r.goldencross
        price == w[it]
        act   == Criteria(a, r, gc, "")
    IN  IF /\ act = "BUY"
           /\ a.disablebuynearhigh
           /\ price * 100 > close_max(w) * 97
        THEN "WAIT" ELSE act

\* the two windows have the same candles 1..it
SamePrefix(it) == \A k \in 1..it : windows.a[k] = windows.b[k]

\* one iteration of both simulations while both are flat; the indicator
\* columns of a row are computed from the candles up to it, so that the two
\* rows are the same when the windows agree so far
WindowTick ==
    /\ pc = "windows"
    /\ windows.iterations < WindowLen
    /\ windows.action.a # "BUY"
    /\ windows.action.b # "BUY"
    /\ \E ra \in Rows, rb \in Rows :
        LET it == windows.iterations + 1
        IN  /\ SamePrefix(it) => ra = rb
            /\ windows' =
                 [ windows EXCEPT
                     !.iterations = it,
                     !.action = [ a |-> WindowAction(app, windows.a, it, ra),
                                  b |-> WindowAction(app, windows.b, it, rb) ] ]
    /\ UNCHANGED notWindows

\* the simulations the two windows are run with
WindowConfigs ==
    { [ DefaultApp EXCEPT !.is_sim = 1 ],
      [ DefaultApp EXCEPT !.is_sim = 1, !.disablebuynearhigh = TRUE ] }

InitWindows ==
    /\ app \in WindowConfigs
    /\ Flat
    /\ pc = "windows"
    /\ df = << >>
    /\ trend = [ h1 |-> NotCalled, h6 |-> NotCalled ]
    /\ ws_candle = FirstCandle
    /\ ws_thread = [ pc |-> "recv", price |-> 0 ]
    /\ ws_view = [ candle |-> FirstCandle, during |-> "none" ]
    /\ RetryIdle
    /\ file = [ form |-> "whole", data |-> NewContents ]
    /\ bot_helper = IdleHelper
    /\ tg_helper = IdleHelper
    /\ manual_pending = FALSE
    /\ \E wa \in [ 1..WindowLen -> Prices ], wb \in [ 1..WindowLen -> Prices ] :
        windows = [ NoWindows EXCEPT !.a = wa, !.b = wb ]

NextWindows == WindowTick

SpecWindows == InitWindows /\ [][NextWindows]_vars

\* ------------------------------------------------------------- properties

\* the last step was a strategy tick of a long position that returned
LongTick(t) == t.outcome = "done" /\ t.margin # None

\* C1: while the bot is not live (test and simulation modes), no tick hands
\* a market buy or a market sell to the exchange adapter; BUY and SELL
\* decisions are only accounted in the local ledger.
C1_NonLiveNeverSubmits == ~isLive(app) => orders = {}

\* a bot that is not live has accounted a BUY and then a SELL
C1_Witness ==
    /\ ~isLive(app)
    /\ buy_count > 0
    /\ sell_count > 0
    /\ tick.outcome = "done"
    /\ tick.action = "SELL"
    /\ orders = {}

\* C2: with sellatloss off, a tick of a long position with margin <= 0 never
\* ends in SELL, whichever signal or exit trigger is active, unless the SELL
\* is the prevent-loss exit.
C2_NoSellAtLoss ==
    [][ ( /\ ~sellatloss(app)
          /\ LongTick(tick')
          /\ tick'.margin <= 0
          /\ tick'.action = "SELL" )
        => tick'.trigger = "preventloss" ]_vars

\* C3: BUY is dispatched only when last_action is not BUY and SELL only when
\* last_action is BUY, so that dispatched BUYs and SELLs alternate and
\* buy_count - sell_count is always 0 or 1.
C3_Alternation ==
    /\ [][ /\ buy_count' > buy_count => last_action # "BUY"
           /\ (sell_count' > sell_count /\ tick'.action = "SELL")
                  => last_action = "BUY" ]_vars
    /\ [](buy_count - sell_count \in {0, 1})

\* C4: a live market order that fails (the exchange rejects it, or the call
\* raises) leaves last_action, last_buy_price, last_buy_size, last_buy_high,
\* buy_count and sell_count as they were before the tick.
C4_FailedOrderLeavesPosition ==
    [][ tick'.resp \in {"rejected", "raised"} => UNCHANGED position ]_vars

\* C5: when buy_max_size is configured, no buy order handed to the adapter
\* is larger than buy_max_size.
C5_BuySizeCapped ==
    \A o \in orders :
        (o.side = "BUY" /\ getBuyMaxSize(app) # None)
            => o.qty <= getBuyMaxSize(app)

C8_TriggerZeroSkipsLatch ==
    [][ ( /\ app.preventloss
          /\ app.preventlosstrigger = 0
          /\ ~app.enable_custom_strategy
          /\ LongTick(tick')
          /\ tick'.margin <= app.preventlossmargin )
        => (tick'.action = "SELL" /\ tick'.trigger = "preventloss") ]_vars

\* C9: in fixed trailing-stop mode, once an earlier tick has seen
\* margin > tsl_trigger, every tick with change from the buy high below
\* tsl_pcnt ends in SELL unless the no-sell-at-loss veto or the no-sell band
\* suppresses it.
C9_FixedTrailingStopFires ==
    [][ ( /\ ~app.dynamic_tsl
          /\ ~app.enable_custom_strategy
          /\ tsl_pcnt # None
          /\ tsl_triggered # "False"
          /\ LongTick(tick')
          /\ tick'.chg < tsl_pcnt
          /\ ~(~sellatloss(app) /\ tick'.margin <= 0)
          /\ ~no_sell_bounds(app, tick'.margin) )
        => tick'.action = "SELL" ]_vars

\* C10 as stated: in dynamic mode a ratchet step occurs exactly on the ticks
\* with margin > tsl_trigger * tsl_trigger_multiplier and tsl_max false; it
\* sets tsl_trigger to tsl_trigger * tsl_trigger_multiplier and tsl_pcnt to
\* tsl_pcnt * tsl_multiplier rounded to 1 decimal, and latches tsl_max once
\* tsl_pcnt <= tsl_max_pcnt, after which there is no step.
C10_Original ==
    [][ (app.dynamic_tsl /\ tsl_pcnt # None /\ LongTick(tick'))
        => LET step == tsl_trigger' # tsl_trigger \/ tsl_pcnt' # tsl_pcnt
               cond == /\ tick'.margin * 10
                            > tsl_trigger * app.tsl_trigger_multiplier
                       /\ ~tsl_max
           IN  /\ step <=> cond
               /\ step =>
                    /\ tsl_trigger' * 10
                         = tsl_trigger * app.tsl_trigger_multiplier
                    /\ tsl_pcnt' = RoundDiv(tsl_pcnt * app.tsl_multiplier, 100) * 10
                    /\ tsl_max' = (tsl_pcnt' <= app.tsl_max_pcnt)
               /\ tsl_max => ~step ]_vars

\* C10: in dynamic mode, on a tick of the long position, a ratchet step
\* occurs exactly when is_sell_trigger gets as far as the trailing stop (no
\* sell-trigger override, prevent-loss exit, no-sell-at-loss veto or no-sell
\* band returns before it), margin > round(tsl_trigger *
\* tsl_trigger_multiplier), the product rounded to a whole percent, and
\* tsl_max is false; the step sets tsl_trigger to that rounded product and
\* tsl_pcnt to tsl_pcnt * tsl_multiplier rounded to 1 decimal, and latches
\* tsl_max once tsl_pcnt <= tsl_max_pcnt, after which there is no step.
C10_RatchetStep ==
    [][ (app.dynamic_tsl /\ tsl_pcnt # None /\ LongTick(tick'))
        => LET m    == tick'.margin
               next == RoundDiv(tsl_trigger * app.tsl_trigger_multiplier,
                                10 * PCT) * PCT
               step == tsl_trigger' # tsl_trigger \/ tsl_pcnt' # tsl_pcnt
               far  == /\ ~tick'.override
                       /\ ~prevent_loss_exit(app, Latches, m)
                       /\ ~(~sellatloss(app) /\ m <= 0)
                       /\ ~no_sell_bounds(app, m)
           IN  /\ step <=> (far /\ m > next /\ ~tsl_max)
               /\ step =>
                    /\ tsl_trigger' = next
                    /\ tsl_pcnt' = RoundDiv(tsl_pcnt * app.tsl_multiplier, 100) * 10
                    /\ tsl_max' = (tsl_pcnt' <= app.tsl_max_pcnt)
               /\ tsl_max => ~step ]_vars

\* two steps have taken the stop from -3% to -6.8% and latched tsl_max, the
\* trigger going 3% -> 4% -> 6%
C10_Witness ==
    /\ app.dynamic_tsl
    /\ tsl_max
    /\ tsl_triggered = "True"
    /\ tsl_trigger = 6 * PCT
    /\ tsl_pcnt = -680

\* C11: on a tick of a long position with nosellminpcnt <= margin <=
\* nosellmaxpcnt on which the prevent-loss exit (ranked above the band) does
\* not fire, a SELL proposed by the sell signal or by an exit trigger below
\* the band is suppressed: the action is WAIT and last_action is unchanged.
C11_BandSuppressesSell ==
    [][ ( /\ LongTick(tick')
          /\ no_sell_bounds(app, tick'.margin)
          /\ tick'.trigger # "preventloss" )
        => (tick'.action = "WAIT" /\ last_action' = last_action) ]_vars

\* the candle index a tick taking this step reads
CurrentIndex == IF isSimulation(app) THEN iterations + 1 ELSE candle'

\* this step dispatches a BUY or a SELL that is not an immediate action
NonImmediateTrade ==
    /\ ~tick'.immediate
    /\ \/ buy_count' > buy_count
       \/ sell_count' > sell_count /\ tick'.action = "SELL"

C13_Original == pc # "recurse"

\* C13: sched holds at most one pending tick, and a tick starts from inside
\* another activation of executeJob only in a simulation at speed fast or
\* fast-sample, as the last statement of a tick that has done all its work
\* (it ran to its end below the simulation's stop count); in live, test and
\* sim-slow modes every tick is started by runApp or by sched after the
\* previous activation has returned.
C13_OneTickAtATime ==
    /\ Len(queue) <= 1
    /\ pc = "recurse"
       => /\ isSimulation(app)
          /\ app.sim_speed \in {"fast", "fast-sample"}
          /\ tick.outcome \in {"done", "skipped"}
          /\ iterations < SimStop

\* a fast simulation is inside its second tick, which has traded and is
\* calling the third
C13_Witness ==
    /\ pc = "recurse"
    /\ iterations = 2
    /\ tick.outcome = "done"
    /\ buy_count = 1

C15_NetworkErrorRetries ==
    [][ (tick'.outcome = "raised" /\ tick'.resp = "timeout")
        => /\ UNCHANGED position
           /\ pc' = "run"
           /\ queue' = << 300 >> ]_vars

\* C16: with autorestart on, every exception that leaves a tick, the first
\* and every later one, is followed by the draining of the job queue and the
\* re-entry of the control loop; with autorestart off it propagates.
C16_AutoRestartAlways ==
    [][ /\ (pc = "raised" /\ app.autorestart)
           => (pc' = "start" /\ queue' = << >>)
        /\ (pc = "raised" /\ ~app.autorestart) => pc' = "dead" ]_vars

\* C17: a tick on which a smart-switch condition holds changes the
\* granularity, returns without evaluating the strategy or dispatching an
\* action (no order, position and state.action untouched), and leaves the
\* next tick scheduled 5 s later.
C17_SmartSwitchReturns ==
    [][ granularity' # granularity
        => /\ orders' = orders
           /\ UNCHANGED position
           /\ action' = action
           /\ pc' = "run"
           /\ queue' = << 5 >> ]_vars

\* this step is a tick: an activation of executeJob from its start to its
\* return or to the exception it raises
TickStep ==
    /\ pc \in {"start", "run", "recurse"}
    /\ pc' \in {"run", "raised", "recurse"}

\* C18: a live tick whose frame has fewer rows than required (250 for 1d on
\* Binance, otherwise 300) does not trade on it (no order, position
\* unchanged) and leaves the next tick scheduled 300 s later.
C18_LengthGuard ==
    [][ (TickStep /\ isLive(app) /\ tick'.short)
        => /\ orders' = orders
           /\ UNCHANGED position
           /\ queue' = << 300 >> ]_vars

\* C19: at every tick boundary, from the state seeded at start-up onwards,
\* last_buy_price > 0 holds if and only if last_action = BUY.
C19_PriceIffLong ==
    pc \in {"start", "run", "recurse", "done"}
        => ((last_buy_price > 0) <=> (last_action = "BUY"))

\* C20: in every state between two ticks, trailing_buy_immediate is set only
\* while trailing_buy is set: a tick in which CS.buySignal raises the flag
\* carries its BUY to check_trailing_buy, which arms trailing_buy, and
\* nothing disarms it.
C20_ImmediateImpliesTrailing == trailing_buy_immediate => trailing_buy

\* the custom strategy has raised the flag and the pending BUY is confirmed at
\* once, the price having risen from the waiting price
C20_Witness ==
    /\ trailing_buy_immediate
    /\ trailing_buy
    /\ ~app.trailingimmediatebuy
    /\ tick.outcome = "done"
    /\ tick.action = "BUY"
    /\ tick.immediate
    /\ waiting_buy_price = CloseMin

\* C21: while trailing_buy is armed, a tick never raises waiting_buy_price;
\* when the waiting price changes, it is lowered to the price of the tick, on
\* a tick whose BUY reached check_trailing_buy.
C21_WaitingPriceNonIncreasing ==
    [][ trailing_buy =>
          /\ waiting_buy_price' <= waiting_buy_price
          /\ (waiting_buy_price' # waiting_buy_price =>
                 /\ tick'.intent = "BUY"
                 /\ waiting_buy_price' = tick'.price
                 /\ tick'.action = "WAIT") ]_vars

\* with trailingbuypcnt 0 the first BUY passes at once, so a BUY that waits
\* at its own price has lowered an armed waiting price
C21_Witness ==
    /\ app.trailingbuypcnt = 0
    /\ trailing_buy
    /\ tick.intent = "BUY"
    /\ tick.action = "WAIT"
    /\ waiting_buy_price = tick.price

\* the waiting price and the price change that check_trailing_buy works with
\* on the tick being taken, and its immediate condition
TickWaitingBuyPrice ==
    IF trailing_buy /\ waiting_buy_price > 0
    THEN waiting_buy_price ELSE tick'.price

TickBuyPriceChange ==
    IF trailing_buy /\ waiting_buy_price > 0
    THEN ((tick'.price - waiting_buy_price) * 100 * PCT) \div waiting_buy_price
    ELSE 0

TickBuyImmediate ==
    /\ app.trailingbuyimmediatepcnt # None
    /\ (trailing_buy_immediate' \/ app.trailingimmediatebuy)
    /\ TickBuyPriceChange > app.trailingbuyimmediatepcnt

\* C22: a BUY that reaches check_trailing_buy is confirmed at candle close
\* only when price >= waiting_buy_price and pricechange >= trailingbuypcnt *
\* 0.9; it is turned into WAIT whenever price < waiting_buy_price, and
\* whenever pricechange < trailingbuypcnt * 0.9 and the immediate condition
\* is not met.
C22_TrailingBuyConfirm ==
    [][ (tick'.outcome = "done" /\ tick'.intent = "BUY") =>
          /\ (tick'.action = "BUY" /\ ~tick'.immediate =>
                 /\ tick'.price >= TickWaitingBuyPrice
                 /\ 10 * TickBuyPriceChange >= 9 * app.trailingbuypcnt)
          /\ (tick'.price < TickWaitingBuyPrice => tick'.action = "WAIT")
          /\ ((10 * TickBuyPriceChange < 9 * app.trailingbuypcnt
                /\ ~TickBuyImmediate) => tick'.action = "WAIT")
          /\ tick'.action \in {"BUY", "WAIT"} ]_vars

\* a BUY confirmed at close after the price rose from the waiting price by
\* more than the configured percentage
C22_Witness ==
    /\ app.trailingbuypcnt > 0
    /\ tick.outcome = "done"
    /\ tick.intent = "BUY"
    /\ tick.action = "BUY"
    /\ ~tick.immediate
    /\ tick.price > waiting_buy_price
    /\ trailing_buy

\* a SELL of the tick being taken reaches check_trailing_sell with trailing
\* sell on
TrailingSellTick ==
    /\ tick'.outcome = "done"
    /\ tick'.trailed
    /\ tick'.intent = "SELL"
    /\ trailing_sell

\* the waiting price and the price change check_trailing_sell works with
TickWaitingSellPrice ==
    IF waiting_sell_price # None THEN waiting_sell_price ELSE tick'.price

TickSellPriceChange ==
    IF waiting_sell_price # None
    THEN ((tick'.price - waiting_sell_price) * 100 * PCT)
             \div waiting_sell_price
    ELSE 0

\* the three conditions, in their order: the action and immediate_action
\* they give
TrailingSellChain ==
    IF /\ app.trailingsellbailoutpcnt # None
       /\ TickSellPriceChange < app.trailingsellbailoutpcnt
    THEN << "SELL", TRUE >>
    ELSE IF /\ app.trailingsellimmediatepcnt # None
            /\ (trailing_sell_immediate' \/ app.trailingimmediatesell)
            /\ TickSellPriceChange < app.trailingsellimmediatepcnt
    THEN << "SELL", TRUE >>
    ELSE IF 10 * TickSellPriceChange > 9 * app.trailingsellpcnt
    THEN << "WAIT", FALSE >>
    ELSE << "SELL", FALSE >>

\* C23 as stated: with trailing sell on, the outcome of the tick is the one
\* the three conditions give (bailout, immediate, fluctuation band).
C23_Original ==
    [][ TrailingSellTick =>
          << tick'.action, tick'.immediate >> = TrailingSellChain ]_vars

\* C23: with trailing sell on, a price at or above the waiting sell price
\* gives WAIT and raises the waiting price to it; below the waiting price
\* the three conditions decide in their order: bailout, immediate,
\* fluctuation band, and SELL at close otherwise.
C23_TrailingSellOrder ==
    [][ TrailingSellTick =>
          IF tick'.price >= TickWaitingSellPrice
          THEN /\ tick'.action = "WAIT"
               /\ ~tick'.immediate
               /\ waiting_sell_price' = tick'.price
          ELSE /\ << tick'.action, tick'.immediate >> = TrailingSellChain
               /\ waiting_sell_price' = waiting_sell_price ]_vars

\* a SELL confirmed at close below the waiting sell price
C23_Witness ==
    /\ trailing_sell
    /\ tick.outcome = "done"
    /\ tick.trailed
    /\ tick.intent = "SELL"
    /\ tick.action = "SELL"
    /\ ~tick.immediate
    /\ waiting_sell_price # None
    /\ tick.price < waiting_sell_price

\* C24: after a tick that dispatches a SELL, trailing_buy, trailing_sell and
\* both immediate flags are false and the waiting buy and sell prices are
\* cleared.
C24_SellResetsTrailing ==
    [][ (tick'.outcome = "done" /\ tick'.action = "SELL") =>
          /\ ~trailing_buy'
          /\ ~trailing_buy_immediate'
          /\ waiting_buy_price' = 0
          /\ ~trailing_sell'
          /\ ~trailing_sell_immediate'
          /\ waiting_sell_price' = None ]_vars

\* C25: after a tick that dispatches a BUY or a SELL, fib_low and fib_high
\* surround the price of the trade (fib_low and fib_high are in cents).
C25_FibBandsAroundTrade ==
    [][ (tick'.outcome = "done" /\ tick'.action \in {"BUY", "SELL"}) =>
          /\ fib_low' <= tick'.price * 100
          /\ tick'.price * 100 <= fib_high' ]_vars

\* C26: with the position flat, the custom strategy off and no veto (bull
\* only, near high) applying, every row with EMA12 above EMA26, a MACD
\* cross-over above the signal and the OBV and Elder-Ray qualifiers
\* satisfied makes the strategy of the tick propose BUY.
C26_SecondBuySignal ==
    \A r \in StrategyRows, p \in Prices :
        ( /\ pc = "strategy"
          /\ last_action # "BUY"
          /\ ~app.enable_custom_strategy
          /\ ema12gtema26(r)
          /\ macdgtsignalco(r)
          /\ (r.obv_pc > -5 * PCT \/ app.disablebuyobv)
          /\ (r.eri_buy \/ app.disablebuyelderray)
          /\ (r.goldencross \/ app.disablebullonly)
          /\ ~app.disablebuynearhigh )
        => StrategyDecide(app, last_action, Latches, fib_low, r, p, p,
                          None, None, CSNone).intent = "BUY"

\* C27: on a tick taken with the position flat, disablebuynearhigh set and
\* the price above close_max * (1 - nobuynearhighpcnt / 100), the action is
\* WAIT.
C27_NoBuyNearHigh ==
    [][ ( /\ tick'.outcome = "done"
          /\ last_action \in {"", "SELL"}
          /\ app.disablebuynearhigh
          /\ tick'.price * 100 > CloseMax * (100 - app.nobuynearhighpcnt) )
        => tick'.action = "WAIT" ]_vars

\* the flag column says, on every row of the frame, that the inequality
\* holds on the row and does not hold on the row before it (the first row of
\* a frame has no row before it)
StartsToHold(flag, co) ==
    \A i \in 1 .. Len(df) :
        df[i][co] <=> (df[i][flag] /\ (i = 1 \/ ~df[i - 1][flag]))

\* C28: on every row of a frame each of the four cross-over flags is true
\* exactly when its inequality holds on the row and not on the row before.
C28_CrossOverFlags ==
    /\ StartsToHold("ema12gtema26", "ema12gtema26co")
    /\ StartsToHold("ema12ltema26", "ema12ltema26co")
    /\ StartsToHold("macdgtsignal", "macdgtsignalco")
    /\ StartsToHold("macdltsignal", "macdltsignalco")

\* a frame in which EMA12 rises above EMA26 after its first row and falls
\* back below on the last one
C28_Witness ==
    /\ Len(df) = 3
    /\ ~df[1].ema12gtema26
    /\ df[2].ema12gtema26co
    /\ df[3].ema12ltema26co
    /\ df[3].macdgtsignalco

\* C29: a Telegram send that raises is swallowed: the tick is not aborted, and
\* the order of the BUY or SELL it was announcing is still submitted
C29_NotifierFailureSwallowed ==
    tick.notify = "raised" =>
        /\ tick.outcome # "raised"
        /\ \E o \in orders : o.side = tick.action

\* C30: a simulation over a window of N candles calls the tick with
\* iterations = 1, ..., N and then stops: state.iterations never goes past the
\* last candle of the window
C30_SimulationIteratesWindow ==
    (isSimulation(app) /\ trading_data > 0) => iterations <= trading_data

\* C31 as stated: the summary that ends a simulation shows as many sells as
\* buys, whatever the configuration
C31_Original ==
    (isSimulation(app) /\ tick.outcome = "done" /\ iterations = trading_data)
        => buy_count = sell_count

\* C31: when selling at a loss is allowed, the summary printed on the last
\* candle of a simulation shows as many sells as buys (it counts a sell for
\* the trade that is still open); when it is not allowed an open trade stays
\* counted as one buy more
C31_SummaryBalanced ==
    (isSimulation(app) /\ tick.outcome = "done" /\ iterations = trading_data)
        => IF app.sell_at_loss = 1
           THEN buy_count = sell_count
           ELSE buy_count \in {sell_count, sell_count + 1}

\* a simulation ended with an open trade that the summary has closed
C31_Witness ==
    /\ isSimulation(app) /\ tick.outcome = "done" /\ iterations = trading_data
    /\ app.sell_at_loss = 1
    /\ last_action = "BUY"
    /\ buy_count = sell_count /\ sell_count > 0

\* C32: a failing read or write of a control file is retried at most 5 times
\* and each retry comes after a wait of 1 s
C32_BoundedRetryWithWait == retries <= 5 /\ waits >= retries

\* C33: a process that reads the file while the other one is writing it gets
\* the whole old or the whole new content, never an empty or partial file
C33_WholeFileReplace ==
    bot_helper.seen \in {"none", "whole"} /\ tg_helper.seen \in {"none", "whole"}

\* C39: no update is lost: a manual sell that was requested and that no
\* checkmanualbuysell has returned yet is still in the file once both
\* processes have finished their operations
C39_NoLostUpdate ==
    (manual_pending /\ bot_helper.pc = "idle" /\ tg_helper.pc = "idle")
        => file.data.manualsell

\* C34: no mutable state is shared across threads: the candles a tick reads
\* are never ones the WebSocket thread is in the middle of updating, so the
\* candle it sees is one the feed produced (low <= close <= high)
C34_NoSharedCandles ==
    /\ ws_view.during \in {"none", "recv"}
    /\ ws_view.candle.low <= ws_view.candle.close
    /\ ws_view.candle.close <= ws_view.candle.high

\* C35: is1hEMA1226Bull and is6hEMA1226Bull return true exactly when
\* EMA12 > EMA26 on the latest candle of the frame they have just fetched
C35_TrendFromLatestCandle ==
    /\ trend.h1.called => (trend.h1.ret <=> trend.h1.ema12 > trend.h1.ema26)
    /\ trend.h6.called => (trend.h6.ret <=> trend.h6.ema12 > trend.h6.ema26)

\* C36: once a tick of a bot that is not a simulation has returned without
\* raising (normally, after a connectivity failure, a smart switch or an
\* undersized frame, also after an auto-restart), exactly one tick is pending
\* in the scheduler queue
C36_OnePendingTick ==
    (~isSimulation(app) /\ pc = "run") => Len(queue) = 1

\* a live tick that switched the granularity and entered a tick 5 s later has
\* returned
C36_Witness ==
    /\ isLive(app) /\ pc = "run"
    /\ tick.outcome = "done"
    /\ granularity = "15m"
    /\ queue = << PollDelay >>

\* C37: the latches of a closed position do not carry over: between a
\* dispatched SELL and the next BUY prevent_loss, tsl_triggered and tsl_max
\* are false and tsl_trigger and tsl_pcnt have their configured values
C37_LatchesClearedAfterSell ==
    (last_action = "SELL" /\ tick.outcome = "done") =>
        /\ ~prevent_loss
        /\ tsl_triggered = "False"
        /\ ~tsl_max
        /\ tsl_trigger = app.trailing_stop_loss_trigger
        /\ tsl_pcnt = app.trailing_stop_loss

\* C38: with preventloss off, the prevent-loss settings and the prevent_loss
\* latch change no decision: on a tick of a long position the
\* no-sell-at-loss veto (sellatloss off and margin <= 0) and the no-sell
\* band each still suppress the SELL.
C38_DisabledPreventLossInert ==
    [][ ( /\ ~app.preventloss
          /\ LongTick(tick')
          /\ \/ ~sellatloss(app) /\ tick'.margin <= 0
             \/ no_sell_bounds(app, tick'.margin) )
        => tick'.action # "SELL" ]_vars

\* C40: in a simulation the action of iteration i depends only on candles
\* 1..i and the position: two windows with the same candles 1..i, run from
\* the same position, have the same action at iteration i.
C40_NoLookAhead ==
    (windows.iterations > 0 /\ SamePrefix(windows.iterations))
        => windows.action.a = windows.action.b

====
